---- MODULE Spec2Model ----
(***************************************************************************)
(* Radio Adamowo service worker (src/public/sw.js): the cache engine.      *)
(*                                                                         *)
(* Strings that the code matches with regular expressions (paths, URLs,    *)
(* protocols) are sequences of one-character strings, so that a prefix or  *)
(* a suffix test is computed on the characters.  Times are milliseconds    *)
(* kept as a pair (whole days, milliseconds within the day): 30 days in    *)
(* milliseconds does not fit TLC's 32-bit integers.                        *)
(***************************************************************************)
EXTENDS Integers, Sequences, FiniteSets, TLC

VARIABLES
    caches,     \* CacheStorage: the named caches, in creation order
    now,        \* Date.now()
    ticks,      \* clock advances so far
    events,     \* fetch events dispatched so far
    task,       \* the fetch handlers: one record per handler slot
    job,        \* the install, activate, message or sync handler that runs
    port        \* what was posted on event.ports[0], in order

vars == <<caches, now, ticks, events, task, job, port>>

----------------------------------------------------------------------------
(* Bounds of the model. *)

\* distinct bodies the network can answer with
MaxBody == 2
\* clock advances in one behaviour
MaxTicks == 1
\* fetch events dispatched in one behaviour
MaxEvents == 2

----------------------------------------------------------------------------
(* Strings as character sequences. *)

StartsWith(s, pre) ==
    /\ Len(s) >= Len(pre)
    /\ SubSeq(s, 1, Len(pre)) = pre

EndsWith(s, suf) ==
    /\ Len(s) >= Len(suf)
    /\ SubSeq(s, Len(s) - Len(suf) + 1, Len(s)) = suf

Dot(ext) == <<".">> \o ext

EndsWithDotExt(s, exts) == \E e \in exts : EndsWith(s, Dot(e))

ExtJsCss == { <<"j","s">>, <<"c","s","s">> }
ExtImage == { <<"p","n","g">>, <<"j","p","g">>, <<"j","p","e","g">>,
              <<"g","i","f">>, <<"s","v","g">>, <<"i","c","o">> }
ExtAudio == { <<"m","p","3">>, <<"w","a","v">>, <<"o","g","g">> }
ExtJson  == { <<"j","s","o","n">> }

----------------------------------------------------------------------------
(* Constants of the worker. *)

CACHE_NAME == <<"r","a","d","i","o","-","a","d","a","m","o","w","o","-","v","1">>

CACHE_STRATEGIES ==
    [ CACHE_FIRST            |-> "cache-first",
      NETWORK_FIRST          |-> "network-first",
      STALE_WHILE_REVALIDATE |-> "stale-while-revalidate",
      NETWORK_ONLY           |-> "network-only",
      CACHE_ONLY             |-> "cache-only" ]

\* RegExp.prototype.test for the six patterns of ROUTE_CONFIGS
PatternTest(pattern, s) ==
    CASE pattern = "^/$"          -> s = <<"/">>
      [] pattern = ".(js|css)$"   -> EndsWithDotExt(s, ExtJsCss)
      [] pattern = ".(png|jpg|jpeg|gif|svg|ico)$" -> EndsWithDotExt(s, ExtImage)
      [] pattern = ".(mp3|wav|ogg)$" -> EndsWithDotExt(s, ExtAudio)
      [] pattern = ".json$"       -> EndsWithDotExt(s, ExtJson)
      [] pattern = "^/api/"       -> StartsWith(s, <<"/","a","p","i","/">>)

\* mutant: the /api/ rule declared first
ROUTE_CONFIGS_ApiFirst ==
    << [ pattern |-> "^/api/",       strategy |-> CACHE_STRATEGIES.NETWORK_ONLY ],
       [ pattern |-> "^/$",          strategy |-> CACHE_STRATEGIES.NETWORK_FIRST ],
       [ pattern |-> ".(js|css)$",   strategy |-> CACHE_STRATEGIES.STALE_WHILE_REVALIDATE ],
       [ pattern |-> ".(png|jpg|jpeg|gif|svg|ico)$",
                                     strategy |-> CACHE_STRATEGIES.CACHE_FIRST ],
       [ pattern |-> ".(mp3|wav|ogg)$",
                                     strategy |-> CACHE_STRATEGIES.CACHE_FIRST ],
       [ pattern |-> ".json$",       strategy |-> CACHE_STRATEGIES.STALE_WHILE_REVALIDATE ] >>

ROUTE_CONFIGS ==
    << [ pattern |-> "^/$",          strategy |-> CACHE_STRATEGIES.NETWORK_FIRST ],
       [ pattern |-> ".(js|css)$",   strategy |-> CACHE_STRATEGIES.STALE_WHILE_REVALIDATE ],
       [ pattern |-> ".(png|jpg|jpeg|gif|svg|ico)$",
                                     strategy |-> CACHE_STRATEGIES.CACHE_FIRST ],
       [ pattern |-> ".(mp3|wav|ogg)$",
                                     strategy |-> CACHE_STRATEGIES.CACHE_FIRST ],
       [ pattern |-> ".json$",       strategy |-> CACHE_STRATEGIES.STALE_WHILE_REVALIDATE ],
       [ pattern |-> "^/api/",       strategy |-> CACHE_STRATEGIES.NETWORK_ONLY ] >>

\* 24 * 60 * 60 * 1000
MsPerDay == 86400000

Days(n) == [ d |-> n, ms |-> 0 ]

CACHE_DURATION ==
    [ images |-> Days(7), audio |-> Days(30), data |-> Days(1), static |-> Days(7) ]

\* 10 * 1024 * 1024
SizeLimit == 10485760

----------------------------------------------------------------------------
(* Time arithmetic on (days, ms) pairs. *)

TimeGt(a, b) == a.d > b.d \/ (a.d = b.d /\ a.ms > b.ms)

TimeSub(a, b) ==
    IF a.ms >= b.ms
    THEN [ d |-> a.d - b.d,     ms |-> a.ms - b.ms ]
    ELSE [ d |-> a.d - b.d - 1, ms |-> a.ms + MsPerDay - b.ms ]

TimeAdd(a, b) ==
    IF a.ms + b.ms < MsPerDay
    THEN [ d |-> a.d + b.d,     ms |-> a.ms + b.ms ]
    ELSE [ d |-> a.d + b.d + 1, ms |-> a.ms + b.ms - MsPerDay ]

----------------------------------------------------------------------------
(* URLs and requests. *)

Origin == <<"h","t","t","p","s",":","/","/","r",".","a">>

HttpsProtocol == <<"h","t","t","p","s",":">>

Url(pathname, search) ==
    [ protocol |-> HttpsProtocol, pathname |-> pathname, search |-> search ]

\* request.url: the serialised URL, query string included
Href(url) ==
    IF url.protocol = HttpsProtocol
    THEN Origin \o url.pathname \o url.search
    ELSE url.protocol \o url.pathname \o url.search

PathRoot     == <<"/">>
PathIndex    == <<"/","i","n","d","e","x",".","h","t","m","l">>
PathStyles   == <<"/","s","t","y","l","e","s",".","c","s","s">>
PathScript   == <<"/","s","c","r","i","p","t",".","j","s">>
PathManifest == <<"/","m","a","n","i","f","e","s","t",".","j","s","o","n">>
PathLangPl   == <<"/","l","a","n","g","/","p","l",".","j","s","o","n">>
PathLangEn   == <<"/","l","a","n","g","/","e","n",".","j","s","o","n">>
PathLangNl   == <<"/","l","a","n","g","/","n","l",".","j","s","o","n">>
PathPlaylist == <<"/","d","a","t","a","/","p","l","a","y","l","i","s","t",".","j","s","o","n">>

STATIC_ASSETS ==
    << PathRoot, PathIndex, PathStyles, PathScript, PathManifest,
       PathLangPl, PathLangEn, PathLangNl, PathPlaylist >>

PathLogo     == <<"/","i","m","a","g","e","s","/","l","o","g","o",".","p","n","g">>
PathApi      == <<"/","a","p","i","/","c","o","m","m","e","n","t","s">>

\* the URLs the page requests in the strategy specifications: one per routed
\* strategy, of three different resource categories
PageUrls ==
    { Url(PathRoot, <<>>), Url(PathPlaylist, <<>>), Url(PathLogo, <<>>),
      Url(PathApi, <<>>) }

GetRequest(url) == [ url |-> url, method |-> "GET" ]

----------------------------------------------------------------------------
(* Responses. *)

Undefined == [ kind |-> "undefined" ]
Rejected  == [ kind |-> "rejected" ]

Response(body, status, type, headers) ==
    [ kind |-> "response", body |-> body, status |-> status,
      type |-> type, headers |-> headers ]

IsResponse(x) == x.kind = "response"

\* Response.ok
Ok(response) == response.status >= 200 /\ response.status <= 299

HasHeader(headers, name) == name \in DOMAIN headers

\* the server's headers of an ordinary answer
PlainHeaders == [ n \in {"content-type", "content-length"} |->
                    IF n = "content-type" THEN "text/plain" ELSE 1024 ]

\* a body over the 10 MB ceiling announces its length
BigHeaders == [ n \in {"content-type", "content-length"} |->
                    IF n = "content-type" THEN "text/plain" ELSE SizeLimit + 1 ]

NetBody(id) == [ origin |-> "network", id |-> id ]

OkResponse(id)   == Response(NetBody(id), 200, "basic", PlainHeaders)
BigResponse      == Response(NetBody(1), 200, "basic", BigHeaders)
NotFoundResponse == Response(NetBody(0), 404, "basic", PlainHeaders)

\* what fetch(request) can settle with
NetOutcomes ==
    {Rejected} \cup { OkResponse(id) : id \in 1..MaxBody }
               \cup {BigResponse, NotFoundResponse}

----------------------------------------------------------------------------
(* CacheStorage: a sequence of named caches in creation order; a cache maps *)
(* request URLs (GET) to stored responses.                                 *)

NoEntries == [ k \in {} |-> Undefined ]

HasCache(cs, name) == \E i \in 1..Len(cs) : cs[i].name = name

CacheIndex(cs, name) == CHOOSE i \in 1..Len(cs) : cs[i].name = name

\* caches.open(name): the cache of that name, created last when missing
CachesOpen(cs, name) ==
    IF HasCache(cs, name) THEN cs
    ELSE Append(cs, [ name |-> name, entries |-> NoEntries ])

\* cache.match(request) on one cache
CacheMatch(cache, key) ==
    IF key \in DOMAIN cache.entries THEN cache.entries[key] ELSE Undefined

\* caches.match(request): the first hit over every cache, in creation order
CachesMatch(cs, key) ==
    LET hits == { i \in 1..Len(cs) : key \in DOMAIN cs[i].entries }
    IN  IF hits = {} THEN Undefined
        ELSE LET first == CHOOSE i \in hits : \A j \in hits : i <= j
             IN  cs[first].entries[key]

\* mutant: a put that leaves an entry already stored under the key in place
CachePut_KeepsExisting(cs, name, key, response) ==
    IF ~HasCache(cs, name) THEN cs
    ELSE LET i == CacheIndex(cs, name)
             e == cs[i].entries
         IN  [ cs EXCEPT ![i].entries =
                 [ k \in DOMAIN e \cup {key} |-> IF k \in DOMAIN e THEN e[k] ELSE response ] ]

\* cache.put(request, response) on the cache a handle names
CachePut(cs, name, key, response) ==
    IF ~HasCache(cs, name) THEN cs
    ELSE LET i == CacheIndex(cs, name)
             e == cs[i].entries
         IN  [ cs EXCEPT ![i].entries =
                 [ k \in DOMAIN e \cup {key} |-> IF k = key THEN response ELSE e[k] ] ]

\* the entry of the current generation for a key
Stored(key) ==
    IF HasCache(caches, CACHE_NAME)
    THEN CacheMatch(caches[CacheIndex(caches, CACHE_NAME)], key)
    ELSE Undefined

----------------------------------------------------------------------------
(* Cache management functions. *)

shouldCache(response) ==
    IF ~Ok(response) THEN FALSE
    ELSE IF response.type = "opaque" THEN FALSE
    ELSE IF /\ HasHeader(response.headers, "content-length")
            /\ response.headers["content-length"] > SizeLimit THEN FALSE
    ELSE TRUE

getCacheMaxAge(url) ==
    IF EndsWithDotExt(url, ExtImage) THEN CACHE_DURATION.images
    ELSE IF EndsWithDotExt(url, ExtAudio) THEN CACHE_DURATION.audio
    ELSE IF EndsWithDotExt(url, ExtJson) THEN CACHE_DURATION.data
    ELSE CACHE_DURATION.static

\* mutant: an entry is stale as soon as its age reaches the max-age
isExpired_AtBoundary(response, url) ==
    IF ~HasHeader(response.headers, "sw-cached-at") THEN FALSE
    ELSE LET age == TimeSub(now, response.headers["sw-cached-at"])
         IN  TimeGt(age, getCacheMaxAge(url)) \/ age = getCacheMaxAge(url)

\* mutant: an entry without a capture timestamp is taken for expired
isExpired_NoStampExpired(response, url) ==
    IF ~HasHeader(response.headers, "sw-cached-at") THEN TRUE
    ELSE TimeGt(TimeSub(now, response.headers["sw-cached-at"]), getCacheMaxAge(url))

isExpired(response, url) ==
    IF ~HasHeader(response.headers, "sw-cached-at") THEN FALSE
    ELSE TimeGt(TimeSub(now, response.headers["sw-cached-at"]), getCacheMaxAge(url))

\* new Response(response.body, {status, statusText, headers: {...response.headers,
\* 'sw-cached-at': Date.now()}}): spreading a Headers object copies no header
responseWithTimestamp(response, stamp) ==
    Response(response.body, response.status, "default",
             [ n \in {"sw-cached-at"} |-> stamp ])

\* mutant: the last matching rule instead of the first
findRouteConfig_LastMatch(pathname) ==
    LET hits == { i \in 1..Len(ROUTE_CONFIGS) :
                    PatternTest(ROUTE_CONFIGS[i].pattern, pathname) }
    IN  IF hits = {} THEN Undefined
        ELSE ROUTE_CONFIGS[CHOOSE i \in hits : \A j \in hits : i >= j]

findRouteConfig(pathname) ==
    LET hits == { i \in 1..Len(ROUTE_CONFIGS) :
                    PatternTest(ROUTE_CONFIGS[i].pattern, pathname) }
    IN  IF hits = {} THEN Undefined
        ELSE ROUTE_CONFIGS[CHOOSE i \in hits : \A j \in hits : i <= j]

\* the strategy the fetch listener hands to handleRequest
RouteStrategy(pathname) ==
    LET routeConfig == findRouteConfig(pathname)
    IN  IF routeConfig = Undefined THEN CACHE_STRATEGIES.NETWORK_FIRST
        ELSE routeConfig.strategy

ErrorBody ==
    [ error |-> "Network error occurred",
      message |-> "Please check your internet connection",
      offline |-> TRUE ]

createErrorResponse ==
    Response(ErrorBody, 503, "default",
             [ n \in {"content-type"} |-> "application/json" ])

----------------------------------------------------------------------------
(* The fetch handlers.  A handler slot runs one fetch event; pc names the  *)
(* await the handler is suspended at.  The page has its answer as soon as  *)
(* result is set; a stale-while-revalidate handler goes on after that.     *)

\* two handlers can overlap; a slot is taken again once its handler is through
TaskIds == {1, 2}

Thrown      == [ kind |-> "thrown" ]
PassThrough == [ kind |-> "passthrough" ]

IdleTask ==
    [ pc |-> "idle", request |-> Undefined, strategy |-> "",
      cachedResponse |-> Undefined, networkResponse |-> Undefined,
      handled |-> Undefined, result |-> Undefined,
      fetched |-> FALSE, stamp |-> Undefined ]

\* no install, activate, message or sync handler has run
IdleJob ==
    [ kind |-> "idle", pc |-> "idle", purge |-> "idle",
      type |-> "", data |-> Undefined, tag |-> "",
      names |-> {}, pending |-> {}, requests |-> {}, group |-> "",
      fetches |-> <<>>, response |-> Undefined,
      cacheSize |-> Undefined, threw |-> FALSE, skipWaiting |-> FALSE ]

\* mutant: the fetch listener without its .catch
respondWith_NoCatch(settled) == settled

\* the .catch of the fetch listener around handleRequest
respondWith(settled) ==
    IF settled = Thrown THEN createErrorResponse ELSE settled

\* handleRequest settles: the page gets the response, or the 503 substitute
Settle(tk, settled) ==
    [ tk EXCEPT !.handled = settled, !.result = respondWith(settled) ]

Key(tk) == Href(tk.request.url)

\* handleRequest: the first await of the strategy's function
handleRequest(strategy) ==
    CASE strategy = CACHE_STRATEGIES.CACHE_FIRST            -> "cacheFirst.match"
      [] strategy = CACHE_STRATEGIES.NETWORK_FIRST          -> "networkFirst.fetch"
      [] strategy = CACHE_STRATEGIES.STALE_WHILE_REVALIDATE -> "staleWhileRevalidate.match"
      [] strategy = CACHE_STRATEGIES.CACHE_ONLY             -> "cacheOnly.match"
      [] strategy = CACHE_STRATEGIES.NETWORK_ONLY           -> "networkOnly.fetch"
      [] OTHER                                              -> "networkFirst.fetch"

IssuesFetch(pc) ==
    pc \in {"networkFirst.fetch", "networkOnly.fetch"}

\* the slots as a new fetch event finds them: what is left of the handlers
\* that are through is dropped
Cleared == [ u \in TaskIds |-> IF task[u].pc = "done" THEN IdleTask ELSE task[u] ]

\* mutant: the fetch listener without its test of the method
FetchEvent_AnyMethod(t, request) ==
    /\ events < MaxEvents
    /\ Cleared[t].pc = "idle"
    /\ \A u \in TaskIds : u < t => Cleared[u].pc # "idle"
    /\ events' = events + 1
    /\ IF ~StartsWith(request.url.protocol, <<"h","t","t","p">>)
       THEN task' = [ Cleared EXCEPT ![t] =
                [ IdleTask EXCEPT !.pc = "done", !.request = request,
                                  !.result = PassThrough ] ]
       ELSE LET strategy == RouteStrategy(request.url.pathname)
                pc == handleRequest(strategy)
            IN  task' = [ Cleared EXCEPT ![t] =
                    [ IdleTask EXCEPT !.pc = pc, !.request = request,
                                      !.strategy = strategy,
                                      !.fetched = IssuesFetch(pc) ] ]
    /\ UNCHANGED <<caches, now, ticks, job, port>>

\* the fetch listener, up to the first await of the strategy
FetchEvent(t, request) ==
    /\ events < MaxEvents
    /\ Cleared[t].pc = "idle"
    /\ \A u \in TaskIds : u < t => Cleared[u].pc # "idle"
    /\ events' = events + 1
    /\ IF ~StartsWith(request.url.protocol, <<"h","t","t","p">>)
       THEN task' = [ Cleared EXCEPT ![t] =
                [ IdleTask EXCEPT !.pc = "done", !.request = request,
                                  !.result = PassThrough ] ]
       ELSE IF request.method # "GET"
       THEN task' = [ Cleared EXCEPT ![t] =
                [ IdleTask EXCEPT !.pc = "done", !.request = request,
                                  !.result = PassThrough ] ]
       ELSE LET strategy == RouteStrategy(request.url.pathname)
                pc == handleRequest(strategy)
            IN  task' = [ Cleared EXCEPT ![t] =
                    [ IdleTask EXCEPT !.pc = pc, !.request = request,
                                      !.strategy = strategy,
                                      !.fetched = IssuesFetch(pc) ] ]
    /\ UNCHANGED <<caches, now, ticks, job, port>>

\* mutant: cacheResponse called without await, the response returned at once
AfterOkFetch_NotAwaited(tk, response, awaited) ==
    IF shouldCache(response)
    THEN IF awaited
         THEN Settle([ tk EXCEPT !.networkResponse = response,
                                 !.pc = "cacheResponse.open" ], response)
         ELSE [ tk EXCEPT !.networkResponse = response, !.pc = "cacheResponse.open" ]
    ELSE IF awaited
    THEN Settle([ tk EXCEPT !.networkResponse = response, !.pc = "done" ], response)
    ELSE [ tk EXCEPT !.networkResponse = response, !.pc = "done" ]

\* after fetch(request) resolved with an ok response: cacheResponse up to its
\* first await; the caller goes on at once when the response is not cacheable
AfterOkFetch(tk, response, awaited) ==
    IF shouldCache(response)
    THEN [ tk EXCEPT !.networkResponse = response, !.pc = "cacheResponse.open" ]
    ELSE IF awaited
    THEN Settle([ tk EXCEPT !.networkResponse = response, !.pc = "done" ], response)
    ELSE [ tk EXCEPT !.networkResponse = response, !.pc = "done" ]

\* mutant: cacheFirst that goes to the network whatever it finds
cacheFirstMatch_AlwaysFetches(t) ==
    /\ task[t].pc = "cacheFirst.match"
    /\ task' = [ task EXCEPT ![t] =
            [ task[t] EXCEPT !.cachedResponse = CachesMatch(caches, Key(task[t])),
                             !.fetched = TRUE, !.pc = "cacheFirst.fetch" ] ]
    /\ UNCHANGED <<caches, now, ticks, events, job, port>>

\* cacheFirst: caches.match resolved
cacheFirstMatch(t) ==
    /\ task[t].pc = "cacheFirst.match"
    /\ LET tk == task[t]
           cachedResponse == CachesMatch(caches, Key(tk))
       IN  IF cachedResponse # Undefined /\ ~isExpired(cachedResponse, Key(tk))
           THEN task' = [ task EXCEPT ![t] =
                    Settle([ tk EXCEPT !.cachedResponse = cachedResponse,
                                       !.pc = "done" ], cachedResponse) ]
           ELSE task' = [ task EXCEPT ![t] =
                    [ tk EXCEPT !.cachedResponse = cachedResponse,
                                !.fetched = TRUE, !.pc = "cacheFirst.fetch" ] ]
    /\ UNCHANGED <<caches, now, ticks, events, job, port>>

\* cacheFirst: fetch(request) settled
cacheFirstFetch(t, outcome) ==
    /\ task[t].pc = "cacheFirst.fetch"
    /\ LET tk == task[t]
       IN  IF outcome = Rejected
           THEN IF tk.cachedResponse # Undefined
                THEN task' = [ task EXCEPT ![t] =
                        Settle([ tk EXCEPT !.networkResponse = Rejected,
                                           !.pc = "done" ], tk.cachedResponse) ]
                ELSE task' = [ task EXCEPT ![t] =
                        Settle([ tk EXCEPT !.networkResponse = Rejected,
                                           !.pc = "done" ], Thrown) ]
           ELSE IF Ok(outcome)
           THEN task' = [ task EXCEPT ![t] = AfterOkFetch(tk, outcome, TRUE) ]
           ELSE task' = [ task EXCEPT ![t] =
                    Settle([ tk EXCEPT !.networkResponse = outcome,
                                       !.pc = "done" ], outcome) ]
    /\ UNCHANGED <<caches, now, ticks, events, job, port>>

\* mutant: networkFirst that takes a non-2xx response for a failed fetch
networkFirstFetch_NonOkFails(t, outcome) ==
    /\ task[t].pc = "networkFirst.fetch"
    /\ LET tk == task[t]
       IN  IF outcome = Rejected \/ ~Ok(outcome)
           THEN task' = [ task EXCEPT ![t] =
                    [ tk EXCEPT !.networkResponse = outcome,
                                !.pc = "networkFirst.match" ] ]
           ELSE task' = [ task EXCEPT ![t] = AfterOkFetch(tk, outcome, TRUE) ]
    /\ UNCHANGED <<caches, now, ticks, events, job, port>>

\* networkFirst: fetch(request) settled
networkFirstFetch(t, outcome) ==
    /\ task[t].pc = "networkFirst.fetch"
    /\ LET tk == task[t]
       IN  IF outcome = Rejected
           THEN task' = [ task EXCEPT ![t] =
                    [ tk EXCEPT !.networkResponse = Rejected,
                                !.pc = "networkFirst.match" ] ]
           ELSE IF Ok(outcome)
           THEN task' = [ task EXCEPT ![t] = AfterOkFetch(tk, outcome, TRUE) ]
           ELSE task' = [ task EXCEPT ![t] =
                    Settle([ tk EXCEPT !.networkResponse = outcome,
                                       !.pc = "done" ], outcome) ]
    /\ UNCHANGED <<caches, now, ticks, events, job, port>>

\* networkFirst: caches.match in the catch block resolved
networkFirstMatch(t) ==
    /\ task[t].pc = "networkFirst.match"
    /\ LET tk == task[t]
           cachedResponse == CachesMatch(caches, Key(tk))
       IN  IF cachedResponse # Undefined
           THEN task' = [ task EXCEPT ![t] =
                    Settle([ tk EXCEPT !.cachedResponse = cachedResponse,
                                       !.pc = "done" ], cachedResponse) ]
           ELSE task' = [ task EXCEPT ![t] =
                    Settle([ tk EXCEPT !.pc = "done" ], Thrown) ]
    /\ UNCHANGED <<caches, now, ticks, events, job, port>>

\* mutant: staleWhileRevalidate that waits for the network on a fresh hit too
staleWhileRevalidateMatch_Waits(t) ==
    /\ task[t].pc = "staleWhileRevalidate.match"
    /\ task' = [ task EXCEPT ![t] =
            [ task[t] EXCEPT !.cachedResponse = CachesMatch(caches, Key(task[t])),
                             !.fetched = TRUE,
                             !.pc = "staleWhileRevalidate.fetch" ] ]
    /\ UNCHANGED <<caches, now, ticks, events, job, port>>

\* mutant: staleWhileRevalidate that returns any entry found, expired or not
staleWhileRevalidateMatch_IgnoresExpiry(t) ==
    /\ task[t].pc = "staleWhileRevalidate.match"
    /\ LET tk == task[t]
           cachedResponse == CachesMatch(caches, Key(tk))
           started == [ tk EXCEPT !.cachedResponse = cachedResponse,
                                  !.fetched = TRUE,
                                  !.pc = "staleWhileRevalidate.fetch" ]
       IN  IF cachedResponse # Undefined
           THEN task' = [ task EXCEPT ![t] = Settle(started, cachedResponse) ]
           ELSE task' = [ task EXCEPT ![t] = started ]
    /\ UNCHANGED <<caches, now, ticks, events, job, port>>

\* mutant: staleWhileRevalidate that deletes the expired entry it finds
staleWhileRevalidateMatch_DropsExpired(t) ==
    /\ task[t].pc = "staleWhileRevalidate.match"
    /\ LET tk == task[t]
           cachedResponse == CachesMatch(caches, Key(tk))
           started == [ tk EXCEPT !.cachedResponse = cachedResponse,
                                  !.fetched = TRUE,
                                  !.pc = "staleWhileRevalidate.fetch" ]
       IN  IF cachedResponse # Undefined /\ ~isExpired(cachedResponse, Key(tk))
           THEN /\ task' = [ task EXCEPT ![t] = Settle(started, cachedResponse) ]
                /\ caches' = caches
           ELSE /\ task' = [ task EXCEPT ![t] = started ]
                /\ caches' = [ i \in 1..Len(caches) |->
                        [ caches[i] EXCEPT !.entries =
                            [ k \in DOMAIN caches[i].entries \ {Key(tk)} |->
                                caches[i].entries[k] ] ] ]
    /\ UNCHANGED <<now, ticks, events, job, port>>

\* staleWhileRevalidate: caches.match resolved; the fetch starts; a fresh entry
\* is returned at once
staleWhileRevalidateMatch(t) ==
    /\ task[t].pc = "staleWhileRevalidate.match"
    /\ LET tk == task[t]
           cachedResponse == CachesMatch(caches, Key(tk))
           started == [ tk EXCEPT !.cachedResponse = cachedResponse,
                                  !.fetched = TRUE,
                                  !.pc = "staleWhileRevalidate.fetch" ]
       IN  IF cachedResponse # Undefined /\ ~isExpired(cachedResponse, Key(tk))
           THEN task' = [ task EXCEPT ![t] = Settle(started, cachedResponse) ]
           ELSE task' = [ task EXCEPT ![t] = started ]
    /\ UNCHANGED <<caches, now, ticks, events, job, port>>

\* mutant: staleWhileRevalidate whose background rejection is not swallowed
staleWhileRevalidateFetch_Surfaces(t, outcome) ==
    /\ task[t].pc = "staleWhileRevalidate.fetch"
    /\ LET tk == task[t]
           waiting == tk.handled = Undefined
       IN  IF outcome = Rejected
           THEN IF ~waiting \/ tk.cachedResponse = Undefined
                THEN task' = [ task EXCEPT ![t] =
                        Settle([ tk EXCEPT !.networkResponse = Rejected,
                                           !.pc = "done" ], Thrown) ]
                ELSE task' = [ task EXCEPT ![t] =
                        Settle([ tk EXCEPT !.networkResponse = Rejected,
                                           !.pc = "done" ], tk.cachedResponse) ]
           ELSE LET next == IF Ok(outcome)
                            THEN AfterOkFetch(tk, outcome, FALSE)
                            ELSE [ tk EXCEPT !.networkResponse = outcome,
                                             !.pc = "done" ]
                IN  IF waiting
                    THEN task' = [ task EXCEPT ![t] = Settle(next, outcome) ]
                    ELSE task' = [ task EXCEPT ![t] = next ]
    /\ UNCHANGED <<caches, now, ticks, events, job, port>>

\* staleWhileRevalidate: fetch(request) settled.  cacheResponse is called and
\* not awaited; a caller still waiting gets the response (or the stale entry)
staleWhileRevalidateFetch(t, outcome) ==
    /\ task[t].pc = "staleWhileRevalidate.fetch"
    /\ LET tk == task[t]
           waiting == tk.handled = Undefined
       IN  IF outcome = Rejected
           THEN IF ~waiting
                THEN task' = [ task EXCEPT ![t] =
                        [ tk EXCEPT !.networkResponse = Rejected, !.pc = "done" ] ]
                ELSE IF tk.cachedResponse # Undefined
                THEN task' = [ task EXCEPT ![t] =
                        Settle([ tk EXCEPT !.networkResponse = Rejected,
                                           !.pc = "done" ], tk.cachedResponse) ]
                ELSE task' = [ task EXCEPT ![t] =
                        Settle([ tk EXCEPT !.networkResponse = Rejected,
                                           !.pc = "done" ], Thrown) ]
           ELSE LET next == IF Ok(outcome)
                            THEN AfterOkFetch(tk, outcome, FALSE)
                            ELSE [ tk EXCEPT !.networkResponse = outcome,
                                             !.pc = "done" ]
                IN  IF waiting
                    THEN task' = [ task EXCEPT ![t] = Settle(next, outcome) ]
                    ELSE task' = [ task EXCEPT ![t] = next ]
    /\ UNCHANGED <<caches, now, ticks, events, job, port>>

\* mutant: networkOnly that falls back to the store when the fetch rejects
networkOnly_FallsBack(t, outcome) ==
    /\ task[t].pc = "networkOnly.fetch"
    /\ LET tk == task[t]
           cachedResponse == CachesMatch(caches, Key(tk))
       IN  IF outcome = Rejected
           THEN IF cachedResponse # Undefined
                THEN task' = [ task EXCEPT ![t] =
                        Settle([ tk EXCEPT !.networkResponse = Rejected,
                                           !.cachedResponse = cachedResponse,
                                           !.pc = "done" ], cachedResponse) ]
                ELSE task' = [ task EXCEPT ![t] =
                        Settle([ tk EXCEPT !.networkResponse = Rejected,
                                           !.pc = "done" ], Thrown) ]
           ELSE task' = [ task EXCEPT ![t] =
                    Settle([ tk EXCEPT !.networkResponse = outcome,
                                       !.pc = "done" ], outcome) ]
    /\ UNCHANGED <<caches, now, ticks, events, job, port>>

\* mutant: networkOnly that stores a successful response before returning it
networkOnly_Stores(t, outcome) ==
    /\ task[t].pc = "networkOnly.fetch"
    /\ LET tk == task[t]
       IN  IF outcome = Rejected
           THEN task' = [ task EXCEPT ![t] =
                    Settle([ tk EXCEPT !.networkResponse = Rejected,
                                       !.pc = "done" ], Thrown) ]
           ELSE IF Ok(outcome)
           THEN task' = [ task EXCEPT ![t] = AfterOkFetch(tk, outcome, TRUE) ]
           ELSE task' = [ task EXCEPT ![t] =
                    Settle([ tk EXCEPT !.networkResponse = outcome,
                                       !.pc = "done" ], outcome) ]
    /\ UNCHANGED <<caches, now, ticks, events, job, port>>

\* networkOnly: fetch(request) settled
networkOnly(t, outcome) ==
    /\ task[t].pc = "networkOnly.fetch"
    /\ LET tk == task[t]
       IN  IF outcome = Rejected
           THEN task' = [ task EXCEPT ![t] =
                    Settle([ tk EXCEPT !.networkResponse = Rejected,
                                       !.pc = "done" ], Thrown) ]
           ELSE task' = [ task EXCEPT ![t] =
                    Settle([ tk EXCEPT !.networkResponse = outcome,
                                       !.pc = "done" ], outcome) ]
    /\ UNCHANGED <<caches, now, ticks, events, job, port>>

\* cacheResponse: caches.open(CACHE_NAME) resolved; the copy to store is built
\* with Date.now() and handed to cache.put
cacheResponseOpen(t) ==
    /\ task[t].pc = "cacheResponse.open"
    /\ caches' = CachesOpen(caches, CACHE_NAME)
    /\ task' = [ task EXCEPT ![t].stamp = now, ![t].pc = "cacheResponse.put" ]
    /\ UNCHANGED <<now, ticks, events, job, port>>

\* the strategies that await cacheResponse before they return
AwaitsCacheResponse(strategy) ==
    strategy # CACHE_STRATEGIES.STALE_WHILE_REVALIDATE

\* cacheResponse: cache.put resolved; cacheFirst and networkFirst return the
\* network response now
cacheResponsePut(t) ==
    /\ task[t].pc = "cacheResponse.put"
    /\ LET tk == task[t]
       IN  /\ caches' = CachePut(caches, CACHE_NAME, Key(tk),
                           responseWithTimestamp(tk.networkResponse, tk.stamp))
           /\ IF AwaitsCacheResponse(tk.strategy)
              THEN task' = [ task EXCEPT ![t] =
                      Settle([ tk EXCEPT !.pc = "done" ], tk.networkResponse) ]
              ELSE task' = [ task EXCEPT ![t].pc = "done" ]
    /\ UNCHANGED <<now, ticks, events, job, port>>

\* the clock advances
ClockSteps == { Days(1), Days(8) }

Tick(delta) ==
    /\ ticks < MaxTicks
    /\ ticks' = ticks + 1
    /\ now' = TimeAdd(now, delta)
    /\ UNCHANGED <<caches, events, task, job, port>>

----------------------------------------------------------------------------
(* The active worker serving the page's requests. *)

\* what cache.addAll(STATIC_ASSETS) stored at install: the responses as the
\* network gave them, with no capture timestamp
Precached ==
    [ k \in { Origin \o STATIC_ASSETS[i] : i \in 1..Len(STATIC_ASSETS) } |->
        Response(NetBody(0), 200, "basic", PlainHeaders) ]

PageRequests == { GetRequest(url) : url \in PageUrls }

Init ==
    /\ caches \in { << [ name |-> CACHE_NAME, entries |-> e ] >> :
                        e \in {NoEntries, Precached} }
    /\ now = Days(0)
    /\ ticks = 0
    /\ events = 0
    /\ task = [ t \in TaskIds |-> IdleTask ]
    /\ job = IdleJob
    /\ port = <<>>

Next ==
    \/ \E t \in TaskIds, request \in PageRequests : FetchEvent(t, request)
    \/ \E t \in TaskIds : cacheFirstMatch(t)
    \/ \E t \in TaskIds, outcome \in NetOutcomes : cacheFirstFetch(t, outcome)
    \/ \E t \in TaskIds, outcome \in NetOutcomes : networkFirstFetch(t, outcome)
    \/ \E t \in TaskIds : networkFirstMatch(t)
    \/ \E t \in TaskIds : staleWhileRevalidateMatch(t)
    \/ \E t \in TaskIds, outcome \in NetOutcomes : staleWhileRevalidateFetch(t, outcome)
    \/ \E t \in TaskIds, outcome \in NetOutcomes : networkOnly(t, outcome)
    \/ \E t \in TaskIds : cacheResponseOpen(t)
    \/ \E t \in TaskIds : cacheResponsePut(t)
    \/ \E delta \in ClockSteps : Tick(delta)

Spec == Init /\ [][Next]_vars

----------------------------------------------------------------------------
(* Vocabulary of the properties. *)

Strategy(t) == task[t].strategy

\* the handler of slot t is suspended at pc and takes its next step
Steps(t, pc) == task[t].pc = pc /\ task'[t] # task[t]

\* the entry caches.match would find for the request of slot t
Found(t) == CachesMatch(caches, Key(task[t]))

FreshHit(t) == Found(t) # Undefined /\ ~isExpired(Found(t), Key(task[t]))

\* the entry of the current generation holds the body and the status of response
Holds(entry, response) ==
    /\ IsResponse(entry)
    /\ entry.body = response.body
    /\ entry.status = response.status

\* slot t has written its network response to the store
Wrote(t) == task[t].pc = "done" /\ task[t].stamp # Undefined

----------------------------------------------------------------------------
(* C1 -- cacheFirst, fresh hit: when caches.match finds an entry for K that *)
(* is not expired, the strategy issues no fetch, returns exactly the entry  *)
(* found, and leaves every cache unchanged.                                 *)

C1_CacheFirstFreshHit ==
    [][ \A t \in TaskIds :
          (Steps(t, "cacheFirst.match") /\ FreshHit(t))
              => /\ task'[t].pc = "done"
                 /\ ~task'[t].fetched
                 /\ task'[t].networkResponse = Undefined
                 /\ task'[t].handled = Found(t)
                 /\ task'[t].result = Found(t)
                 /\ caches' = caches ]_vars

\* a cache-first request answered from an entry written earlier with a capture
\* timestamp, after the clock has moved on
C1_Witness ==
    \E t \in TaskIds :
        /\ Strategy(t) = CACHE_STRATEGIES.CACHE_FIRST
        /\ task[t].pc = "done"
        /\ ~task[t].fetched
        /\ IsResponse(task[t].cachedResponse)
        /\ task[t].result = task[t].cachedResponse
        /\ HasHeader(task[t].cachedResponse.headers, "sw-cached-at")
        /\ task[t].cachedResponse.headers["sw-cached-at"] # now

----------------------------------------------------------------------------
(* C2 -- networkFirst.                                                     *)

\* slot t hands its answer to the caller in this step
Returns(t) == task[t].handled = Undefined /\ task'[t].handled # Undefined

\* C2 as stated: whenever the network answers, networkFirst returns the
\* network response and the store's entry for K holds it when the strategy
\* returns; whenever the fetch fails and an entry is stored, the entry is
\* returned.
C2_Original ==
    [][ \A t \in TaskIds :
          (Strategy(t) = CACHE_STRATEGIES.NETWORK_FIRST /\ Returns(t))
              => /\ IsResponse(task'[t].networkResponse)
                    => /\ task'[t].handled = task'[t].networkResponse
                       /\ Holds(Stored(Key(task[t]))', task'[t].networkResponse)
                 /\ (task'[t].networkResponse = Rejected /\ Found(t) # Undefined)
                    => task'[t].handled = Found(t) ]_vars

\* C2 amended: whenever the network answers, networkFirst returns the network
\* response; when that response has a success status and passes shouldCache,
\* the store's entry for K holds its body and status, stamped with the capture
\* time, at the moment the strategy returns; a response with another status or
\* over the size ceiling is returned and not written.  Whenever the fetch
\* rejects and an entry for K is stored, stale or not, that entry is returned.
C2_NetworkFirst ==
    [][ \A t \in TaskIds :
          (Strategy(t) = CACHE_STRATEGIES.NETWORK_FIRST /\ Returns(t))
              => LET net == task'[t].networkResponse
                 IN  /\ IsResponse(net) => task'[t].handled = net
                     /\ (IsResponse(net) /\ shouldCache(net))
                        => /\ Steps(t, "cacheResponse.put")
                           /\ Stored(Key(task[t]))' =
                                responseWithTimestamp(net, task[t].stamp)
                           /\ Holds(Stored(Key(task[t]))', net)
                     /\ (IsResponse(net) /\ ~shouldCache(net))
                        => caches' = caches
                     /\ (net = Rejected /\ Found(t) # Undefined)
                        => task'[t].handled = Found(t) /\ caches' = caches ]_vars

\* one network-first request answered and stored from the network, a later
\* one for the same key answered from that entry after its fetch failed
C2_Witness ==
    \E t, u \in TaskIds :
        /\ Strategy(t) = CACHE_STRATEGIES.NETWORK_FIRST
        /\ Strategy(u) = CACHE_STRATEGIES.NETWORK_FIRST
        /\ Wrote(t)
        /\ task[t].result = task[t].networkResponse
        /\ task[u].pc = "done"
        /\ task[u].networkResponse = Rejected
        /\ IsResponse(task[u].cachedResponse)
        /\ Holds(task[u].cachedResponse, task[t].networkResponse)
        /\ task[u].result = task[u].cachedResponse

----------------------------------------------------------------------------
(* C3 -- cacheFirst without a fresh entry.                                 *)

CacheFirstMiss(t) ==
    /\ Strategy(t) = CACHE_STRATEGIES.CACHE_FIRST
    /\ task[t].pc # "cacheFirst.match"
    /\ task[t].fetched

\* C3 as stated: with no entry or an expired one cacheFirst fetches; a
\* successful fetch is written to the store before it is returned; a failed
\* fetch returns the expired entry, or fails when there is none.
C3_Original ==
    \A t \in TaskIds :
        (CacheFirstMiss(t) /\ task[t].handled # Undefined)
            => LET net == task[t].networkResponse
               IN  /\ (IsResponse(net) /\ Ok(net))
                      => task[t].handled = net /\ Wrote(t)
                   /\ (net = Rejected /\ task[t].cachedResponse # Undefined)
                      => task[t].handled = task[t].cachedResponse
                   /\ (net = Rejected /\ task[t].cachedResponse = Undefined)
                      => task[t].handled = Thrown

\* C3 amended: with no entry or an expired one cacheFirst fetches; a
\* successful response that passes shouldCache is written to the store before
\* it is returned (a successful response over the size ceiling is returned and
\* not written); a rejected fetch returns the expired entry, or fails when
\* there is none.
C3_CacheFirstMiss ==
    /\ [](\A t \in TaskIds :
            /\ (Strategy(t) = CACHE_STRATEGIES.CACHE_FIRST
                    /\ task[t].pc \notin {"cacheFirst.match", "done"})
               => task[t].fetched /\ task[t].handled = Undefined
            /\ (CacheFirstMiss(t) /\ task[t].handled # Undefined)
               => LET net == task[t].networkResponse
                  IN  /\ (IsResponse(net) /\ shouldCache(net))
                         => task[t].handled = net /\ Wrote(t)
                      /\ (IsResponse(net) /\ Ok(net) /\ ~shouldCache(net))
                         => task[t].handled = net /\ ~Wrote(t)
                      /\ (net = Rejected /\ task[t].cachedResponse # Undefined)
                         => task[t].handled = task[t].cachedResponse
                      /\ (net = Rejected /\ task[t].cachedResponse = Undefined)
                         => task[t].handled = Thrown)
    /\ [][ \A t \in TaskIds :
             /\ (Steps(t, "cacheFirst.match") /\ ~FreshHit(t))
                => task'[t].fetched /\ task'[t].pc = "cacheFirst.fetch"
             /\ (Strategy(t) = CACHE_STRATEGIES.CACHE_FIRST
                    /\ Steps(t, "cacheResponse.put"))
                => /\ Returns(t)
                   /\ Stored(Key(task[t]))' =
                        responseWithTimestamp(task[t].networkResponse, task[t].stamp)
             /\ (Strategy(t) = CACHE_STRATEGIES.CACHE_FIRST /\ Returns(t)
                    /\ ~Steps(t, "cacheResponse.put"))
                => caches' = caches ]_vars

\* an expired entry revalidated: the network response is stored, then returned
C3_Witness ==
    \E t \in TaskIds :
        /\ CacheFirstMiss(t)
        /\ IsResponse(task[t].cachedResponse)
        /\ Wrote(t)
        /\ task[t].result = task[t].networkResponse
        /\ Holds(Stored(Key(task[t])), task[t].networkResponse)

----------------------------------------------------------------------------
(* C4 -- staleWhileRevalidate, fresh hit: the fetch is started and the      *)
(* stored entry is returned in the same step, while the fetch is pending;   *)
(* in no state has the revalidation fetch settled, or the write begun,      *)
(* before the caller has its answer.                                        *)

SWR == CACHE_STRATEGIES.STALE_WHILE_REVALIDATE

C4_ReturnBeforeRevalidation ==
    /\ [][ \A t \in TaskIds :
             (Steps(t, "staleWhileRevalidate.match") /\ FreshHit(t))
                 => /\ task'[t].fetched
                    /\ task'[t].pc = "staleWhileRevalidate.fetch"
                    /\ task'[t].networkResponse = Undefined
                    /\ task'[t].stamp = Undefined
                    /\ task'[t].handled = Found(t)
                    /\ task'[t].result = Found(t)
                    /\ caches' = caches ]_vars
    /\ [](\A t \in TaskIds :
            (Strategy(t) = SWR
                /\ (task[t].networkResponse # Undefined \/ task[t].stamp # Undefined))
                => task[t].handled # Undefined)

\* the caller has the stored entry and the revalidation fetch is still pending
C4_Witness ==
    \E t \in TaskIds :
        /\ Strategy(t) = SWR
        /\ task[t].pc = "staleWhileRevalidate.fetch"
        /\ IsResponse(task[t].cachedResponse)
        /\ task[t].result = task[t].cachedResponse
        /\ task[t].fetched
        /\ task[t].networkResponse = Undefined

----------------------------------------------------------------------------
(* C5 -- staleWhileRevalidate, the background revalidation.                *)

\* slot t was answered from the store and revalidates in the background
ServedFromStore(t) ==
    /\ Strategy(t) = SWR
    /\ IsResponse(task[t].cachedResponse)
    /\ task[t].handled = task[t].cachedResponse

----------------------------------------------------------------------------
(* C6 -- staleWhileRevalidate without a fresh entry: the caller waits for   *)
(* the fetch and gets its response; when the fetch rejects the caller gets  *)
(* the expired entry, or the failure when there is none.                    *)

C6_StaleWhileRevalidateMiss ==
    [][ \A t \in TaskIds :
          /\ (Steps(t, "staleWhileRevalidate.match") /\ ~FreshHit(t))
             => /\ task'[t].fetched
                /\ task'[t].handled = Undefined
                /\ task'[t].cachedResponse = Found(t)
                /\ task'[t].pc = "staleWhileRevalidate.fetch"
          /\ (Steps(t, "staleWhileRevalidate.fetch") /\ task[t].handled = Undefined)
             => LET net == task'[t].networkResponse
                    cachedResponse == task[t].cachedResponse
                IN  /\ IsResponse(net) => task'[t].handled = net
                    /\ (net = Rejected /\ cachedResponse # Undefined)
                       => task'[t].handled = cachedResponse
                    /\ (net = Rejected /\ cachedResponse = Undefined)
                       => task'[t].handled = Thrown ]_vars

\* an expired entry served because the fetch the caller waited for rejected
C6_Witness ==
    \E t \in TaskIds :
        /\ Strategy(t) = SWR
        /\ task[t].pc = "done"
        /\ task[t].networkResponse = Rejected
        /\ IsResponse(task[t].cachedResponse)
        /\ isExpired(task[t].cachedResponse, Key(task[t]))
        /\ task[t].result = task[t].cachedResponse

----------------------------------------------------------------------------
(* C7 -- the page never sees a failure: whatever handleRequest settles     *)
(* with, the page is given a response; a strategy fails only when its      *)
(* fetch rejected and it had no entry to fall back on, and then the page   *)
(* gets the 503 response with the JSON body {error, message, offline}.     *)

C7_AlwaysAResponse ==
    \A t \in TaskIds :
        /\ task[t].result # Undefined
            => task[t].result = PassThrough \/ IsResponse(task[t].result)
        /\ task[t].handled # Undefined
            => /\ IsResponse(task[t].result)
               /\ task[t].handled # Thrown => task[t].result = task[t].handled
               /\ task[t].handled = Thrown
                    => /\ task[t].networkResponse = Rejected
                       /\ task[t].cachedResponse = Undefined
                       /\ task[t].result.status = 503
                       /\ DOMAIN task[t].result.body = {"error", "message", "offline"}
                       /\ task[t].result.body.offline = TRUE
                       /\ task[t].result.headers["content-type"] = "application/json"

\* a strategy failed and the page holds the 503 substitute
C7_Witness ==
    \E t \in TaskIds :
        /\ task[t].handled = Thrown
        /\ task[t].result = createErrorResponse
        /\ task[t].result.status = 503

----------------------------------------------------------------------------
(* C8 -- a response with a non-2xx status.                                 *)

Intercepted(t) ==
    Strategy(t) \in { CACHE_STRATEGIES.CACHE_FIRST, CACHE_STRATEGIES.NETWORK_FIRST, SWR }

\* C8 as stated: in cache-first, network-first and stale-while-revalidate a
\* non-2xx response is a network failure: the caller gets the stored entry
\* when there is one and the failure otherwise, never the non-2xx response.
C8_Original ==
    \A t \in TaskIds :
        (/\ Intercepted(t)
         /\ IsResponse(task[t].networkResponse)
         /\ ~Ok(task[t].networkResponse)
         /\ task[t].handled # Undefined)
            => /\ task[t].handled # task[t].networkResponse
               /\ Stored(Key(task[t])) # Undefined
                    => IsResponse(task[t].handled)
               /\ CachesMatch(caches, Key(task[t])) = Undefined
                    => task[t].handled = Thrown

\* C8 amended: a non-2xx response is not a failure to the strategies: when
\* the caller of cache-first, network-first or stale-while-revalidate is
\* waiting for the fetch and it resolves with a non-2xx response, the caller
\* gets that response as it is, also when an entry for K is stored, and no
\* cache is written; the stored entry or the 503 substitute is given only
\* when the fetch rejects.
C8_NonOkResponseReturned ==
    /\ [][ \A t \in TaskIds :
             (/\ Intercepted(t)
              /\ task[t].networkResponse = Undefined
              /\ IsResponse(task'[t].networkResponse)
              /\ ~Ok(task'[t].networkResponse))
                 => /\ task'[t].pc = "done"
                    /\ caches' = caches
                    /\ task[t].handled = Undefined
                        => task'[t].handled = task'[t].networkResponse
                    /\ task[t].handled # Undefined
                        => task'[t].handled = task[t].handled ]_vars
    /\ [](\A t \in TaskIds :
            (Intercepted(t) /\ task[t].handled # Undefined
                /\ task[t].handled \in {task[t].cachedResponse, Thrown}
                /\ task[t].networkResponse # Undefined)
                => \/ task[t].networkResponse = Rejected
                   \/ Strategy(t) = SWR /\ task[t].handled = task[t].cachedResponse)

\* network-first hands the 404 to the page although an entry for K is stored
C8_Witness ==
    \E t \in TaskIds :
        /\ Strategy(t) = CACHE_STRATEGIES.NETWORK_FIRST
        /\ task[t].pc = "done"
        /\ task[t].networkResponse = NotFoundResponse
        /\ task[t].result = NotFoundResponse
        /\ IsResponse(Stored(Key(task[t])))

\* the page requesting only what is routed to stale-while-revalidate
RevalidatedRequests ==
    { GetRequest(url) : url \in { u \in PageUrls : RouteStrategy(u.pathname) = SWR } }

NextRevalidate ==
    \/ \E t \in TaskIds, request \in RevalidatedRequests : FetchEvent(t, request)
    \/ \E t \in TaskIds : staleWhileRevalidateMatch(t)
    \/ \E t \in TaskIds, outcome \in NetOutcomes : staleWhileRevalidateFetch(t, outcome)
    \/ \E t \in TaskIds : cacheResponseOpen(t)
    \/ \E t \in TaskIds : cacheResponsePut(t)
    \/ \E delta \in ClockSteps : Tick(delta)

\* the awaits of cacheResponse resolve: caches.open and cache.put complete
FairSpec ==
    /\ Init
    /\ [][NextRevalidate]_vars
    /\ \A t \in TaskIds : WF_vars(cacheResponseOpen(t))
    /\ \A t \in TaskIds : WF_vars(cacheResponsePut(t))

----------------------------------------------------------------------------
(* Route matching: the fetch listener on one request whose path is built   *)
(* from directories, a file stem and an extension.                         *)

\* directories in a path
MaxDirs == 2

DirNames == { <<"a","p","i">>, <<"i","m","g">> }

RECURSIVE DirPaths(_)
DirPaths(n) ==
    IF n = 0 THEN { <<"/">> }
    ELSE DirPaths(n - 1)
            \cup { p \o d \o <<"/">> : p \in DirPaths(n - 1), d \in DirNames }

FileStems == { <<>>, <<"a">>, <<"a",".","j","s">>, <<"a","p","i","/">> }

FileExts ==
    { <<>> } \cup { Dot(e) : e \in ExtJsCss \cup ExtImage \cup ExtAudio \cup ExtJson }
             \cup { <<".","P","N","G">>, <<".","h","t","m","l">>,
                    <<".","j","s","x">>, <<"j","s","o","n">>, <<".","j","s","o","n","/">> }

RoutePaths ==
    { p \o stem \o ext : p \in DirPaths(MaxDirs), stem \in FileStems, ext \in FileExts }

Searches == { <<>>, <<"?","v","=","1">> }

InitRoute ==
    /\ caches = << [ name |-> CACHE_NAME, entries |-> Precached ] >>
    /\ now = Days(0)
    /\ ticks = 0
    /\ events = 0
    /\ task = [ t \in TaskIds |-> IdleTask ]
    /\ job = IdleJob
    /\ port = <<>>

NextRoute ==
    \E pathname \in RoutePaths, search \in Searches :
        FetchEvent(1, GetRequest(Url(pathname, search)))

SpecRoute == InitRoute /\ [][NextRoute]_vars

\* the rules whose pattern matches the path of slot t's request
Matching(t) ==
    { i \in 1..Len(ROUTE_CONFIGS) :
        PatternTest(ROUTE_CONFIGS[i].pattern, task[t].request.url.pathname) }

Routed(t) == task[t].pc # "idle" /\ task[t].result # PassThrough

----------------------------------------------------------------------------
(* C9 -- route matching: the strategy run for a request is that of the      *)
(* first rule in declaration order whose pattern matches the path, and     *)
(* network-first when no rule matches.                                     *)

C9_FirstMatchWins ==
    \A t \in TaskIds :
        Routed(t)
            => /\ \A i \in Matching(t) :
                    (\A j \in Matching(t) : i <= j)
                        => Strategy(t) = ROUTE_CONFIGS[i].strategy
               /\ Matching(t) = {}
                    => Strategy(t) = CACHE_STRATEGIES.NETWORK_FIRST
               /\ task[t].pc = handleRequest(Strategy(t))

\* a path under /api/ that ends in .json: two rules match, the earlier one wins
C9_Witness ==
    \E t \in TaskIds :
        /\ Routed(t)
        /\ Matching(t) = {5, 6}
        /\ Strategy(t) = SWR
        /\ task[t].pc = "staleWhileRevalidate.match"

----------------------------------------------------------------------------
(* C10 -- every path that ends with an image or an audio extension is      *)
(* served cache-first and every path that ends with .json is served        *)
(* stale-while-revalidate, whatever comes before the extension.            *)

C10_ExtensionRoutes ==
    \A t \in TaskIds :
        Routed(t)
            => LET pathname == task[t].request.url.pathname
               IN  /\ EndsWithDotExt(pathname, ExtImage \cup ExtAudio)
                        => Strategy(t) = CACHE_STRATEGIES.CACHE_FIRST
                   /\ EndsWithDotExt(pathname, ExtJson)
                        => Strategy(t) = SWR

\* an image under /api/, with a .js in its name, still served cache-first
C10_Witness ==
    \E t \in TaskIds :
        /\ Routed(t)
        /\ StartsWith(task[t].request.url.pathname, <<"/","a","p","i","/">>)
        /\ EndsWith(task[t].request.url.pathname, <<".","j","s",".","p","n","g">>)
        /\ Strategy(t) = CACHE_STRATEGIES.CACHE_FIRST

----------------------------------------------------------------------------
(* Requests under /api/: the page asks for API paths with and without an   *)
(* extension; the store may hold entries under those keys (PRELOAD_AUDIO   *)
(* stores whatever URL it is given).                                       *)

ApiPrefix == <<"/","a","p","i","/">>

PathApiList   == ApiPrefix \o <<"l","i","s","t",".","j","s","o","n">>
PathApiCover  == ApiPrefix \o <<"c","o","v","e","r",".","p","n","g">>
PathApiPlayer == ApiPrefix \o <<"p","l","a","y","e","r",".","j","s">>

ApiUrls ==
    { Url(PathApi, <<>>), Url(PathApiList, <<>>), Url(PathApiCover, <<>>),
      Url(PathApiPlayer, <<>>) }

ApiRequests == { GetRequest(url) : url \in ApiUrls }

\* entries as preloadAudio leaves them: the network's response, no timestamp
ApiStored ==
    [ k \in { Href(url) : url \in ApiUrls } |->
        Response(NetBody(0), 200, "basic", PlainHeaders) ]

InitApi ==
    /\ caches \in { << [ name |-> CACHE_NAME, entries |-> e ] >> :
                        e \in {NoEntries, ApiStored} }
    /\ now = Days(0)
    /\ ticks = 0
    /\ events = 0
    /\ task = [ t \in TaskIds |-> IdleTask ]
    /\ job = IdleJob
    /\ port = <<>>

NextApi ==
    \/ \E t \in TaskIds, request \in ApiRequests : FetchEvent(t, request)
    \/ \E t \in TaskIds : cacheFirstMatch(t)
    \/ \E t \in TaskIds, outcome \in NetOutcomes : cacheFirstFetch(t, outcome)
    \/ \E t \in TaskIds : staleWhileRevalidateMatch(t)
    \/ \E t \in TaskIds, outcome \in NetOutcomes : staleWhileRevalidateFetch(t, outcome)
    \/ \E t \in TaskIds, outcome \in NetOutcomes : networkOnly(t, outcome)
    \/ \E t \in TaskIds : cacheResponseOpen(t)
    \/ \E t \in TaskIds : cacheResponsePut(t)
    \/ \E delta \in ClockSteps : Tick(delta)

SpecApi == InitApi /\ [][NextApi]_vars

\* the path of slot t's request is under /api/
UnderApi(t) == StartsWith(task[t].request.url.pathname, ApiPrefix)

\* the path of slot t's request ends in an extension an earlier rule names
HasRoutedExtension(t) ==
    EndsWithDotExt(task[t].request.url.pathname,
                   ExtJsCss \cup ExtImage \cup ExtAudio \cup ExtJson)

\* slot t never read the store and never wrote to it
StoreUntouchedBy(t) ==
    /\ task[t].cachedResponse = Undefined
    /\ task[t].stamp = Undefined
    /\ task[t].pc \notin {"cacheResponse.open", "cacheResponse.put"}

----------------------------------------------------------------------------
(* C11 -- requests under /api/.                                            *)

----------------------------------------------------------------------------
(* The install, message and sync handlers.  job is the handler that runs;  *)
(* job.pc names the await it is suspended at.                              *)

CACHE_VERSION == "1.0.0"

\* the handler before is through: the next event can be dispatched
JobThrough ==
    /\ job.pc \in {"idle", "done"}
    /\ job.purge \in {"idle", "done"}

\* cache.delete(request) for a set of keys of the cache a handle names
CacheDeleteAll(cs, name, keys) ==
    IF ~HasCache(cs, name) THEN cs
    ELSE LET i == CacheIndex(cs, name)
             e == cs[i].entries
         IN  [ cs EXCEPT ![i].entries = [ k \in DOMAIN e \ keys |-> e[k] ] ]

\* cache.keys(): the request URLs stored in the cache a handle names
CacheKeys(cs, name) ==
    IF HasCache(cs, name) THEN DOMAIN cs[CacheIndex(cs, name)].entries ELSE {}

\* caches.delete(name)
CachesDelete(cs, name) ==
    SelectSeq(cs, LAMBDA c : c.name # name)

\* the install listener, up to caches.open
InstallEvent ==
    /\ events < MaxEvents
    /\ JobThrough
    /\ events' = events + 1
    /\ job' = [ IdleJob EXCEPT !.kind = "install", !.pc = "install.open" ]
    /\ UNCHANGED <<caches, now, ticks, task, port>>

\* install: caches.open(CACHE_NAME) resolved; cache.addAll starts its fetches
installOpen ==
    /\ job.pc = "install.open"
    /\ caches' = CachesOpen(caches, CACHE_NAME)
    /\ job' = [ job EXCEPT !.pc = "install.addAll" ]
    /\ UNCHANGED <<now, ticks, events, task, port>>

\* install: cache.addAll settled.  Asset number odd was answered with outcome,
\* the others with an ordinary 200.  addAll stores every response as the
\* network gave it when all are ok, and then the listener calls skipWaiting;
\* addAll stores nothing and rejects otherwise, and the rejection is caught
\* and logged.
installAddAll(odd, outcome) ==
    /\ job.pc = "install.addAll"
    /\ LET responses == [ i \in 1..Len(STATIC_ASSETS) |->
                            IF i = odd THEN outcome ELSE OkResponse(1) ]
           allOk == \A i \in 1..Len(STATIC_ASSETS) :
                        IsResponse(responses[i]) /\ Ok(responses[i])
           index(k) == CHOOSE i \in 1..Len(STATIC_ASSETS) :
                           Origin \o STATIC_ASSETS[i] = k
           keys == { Origin \o STATIC_ASSETS[i] : i \in 1..Len(STATIC_ASSETS) }
       IN  /\ IF allOk /\ HasCache(caches, CACHE_NAME)
              THEN LET i == CacheIndex(caches, CACHE_NAME)
                       e == caches[i].entries
                   IN  caches' = [ caches EXCEPT ![i].entries =
                           [ k \in DOMAIN e \cup keys |->
                               IF k \in keys THEN responses[index(k)] ELSE e[k] ] ]
              ELSE caches' = caches
           /\ job' = [ job EXCEPT !.pc = "done", !.fetches = responses,
                                  !.skipWaiting = allOk ]
    /\ UNCHANGED <<now, ticks, events, task, port>>

\* a value that is a Promise
IsPromise(x) == x.kind = "promise"

\* the structured clone of postMessage: a message with a Promise in a field
\* cannot be cloned (the fields that hold objects: cacheSize)
Cloneable(message) ==
    \A f \in DOMAIN message \cap {"cacheSize"} : ~IsPromise(message[f])

\* port.postMessage(message): the message is queued, or DataCloneError thrown
postMessage(p, message) ==
    IF Cloneable(message) THEN Append(p, message) ELSE p

\* what calling the async function getCacheSize returns: a pending promise
getCacheSize == [ kind |-> "promise", state |-> "pending" ]

\* (usage / quota * 100).toFixed(2), as whole percents and hundredths
usagePercent(usage, quota) ==
    LET n == (usage * 20000 + quota) \div (2 * quota)
    IN  [ whole |-> n \div 100, hundredths |-> n % 100 ]

\* what the promise of getCacheSize resolves with
CacheSize(estimate) ==
    IF estimate = Undefined THEN [ kind |-> "null" ]
    ELSE [ kind |-> "size", usage |-> estimate.usage, quota |-> estimate.quota,
           usagePercent |-> usagePercent(estimate.usage, estimate.quota) ]

\* navigator.storage.estimate(): not supported or failed (Undefined), or an
\* estimate
Estimates ==
    {Undefined} \cup { [ usage |-> u, quota |-> 4096 ] : u \in {0, 1365, 4096} }

Success == [ success |-> TRUE ]

\* a string value of a message field
Str(value) == [ kind |-> "string", value |-> value ]

\* mutant: the 'audio' case filtering with the pattern of the images
toDelete_AudioAsImages(requests, cacheType) ==
    { url \in requests :
        CASE cacheType = Str("images") -> EndsWithDotExt(url, ExtImage)
          [] cacheType = Str("audio")  -> EndsWithDotExt(url, ExtImage)
          [] cacheType = Str("data")   -> EndsWithDotExt(url, ExtJson)
          [] OTHER                     -> FALSE }

\* the filter of clearCache over the keys of the cache
toDelete(requests, cacheType) ==
    { url \in requests :
        CASE cacheType = Str("images") -> EndsWithDotExt(url, ExtImage)
          [] cacheType = Str("audio")  -> EndsWithDotExt(url, ExtAudio)
          [] cacheType = Str("data")   -> EndsWithDotExt(url, ExtJson)
          [] OTHER                     -> FALSE }

\* message data: an object with the fields the page set
Data(cacheType, urls) == [ kind |-> "object", cacheType |-> cacheType, urls |-> urls ]

Array(items) == [ kind |-> "array", items |-> items ]

\* the message listener, up to the first await of the function it calls
MessageEvent(type, data) ==
    /\ events < MaxEvents
    /\ JobThrough
    /\ events' = events + 1
    /\ LET started == [ IdleJob EXCEPT !.kind = "message", !.type = type,
                                       !.data = data ]
       IN  CASE type = "SKIP_WAITING" ->
                  /\ port' = port
                  /\ job' = [ started EXCEPT !.pc = "done", !.skipWaiting = TRUE ]
             [] type = "GET_CACHE_STATUS" ->
                  LET message == [ cacheSize |-> getCacheSize,
                                   cacheVersion |-> CACHE_VERSION ]
                  IN  /\ port' = postMessage(port, message)
                      /\ job' = [ started EXCEPT !.pc = "getCacheSize.estimate",
                                                 !.cacheSize = getCacheSize,
                                                 !.threw = ~Cloneable(message) ]
             [] type = "CLEAR_CACHE" ->
                  /\ port' = port
                  /\ job' = IF data = Undefined
                            THEN [ started EXCEPT !.pc = "done", !.threw = TRUE ]
                            ELSE IF data.cacheType \in {Undefined, Str("all")}
                            THEN [ started EXCEPT !.pc = "clearCache.delete" ]
                            ELSE [ started EXCEPT !.pc = "clearCache.open" ]
             [] type = "PRELOAD_AUDIO" ->
                  IF data = Undefined
                  THEN /\ port' = port
                       /\ job' = [ started EXCEPT !.pc = "done", !.threw = TRUE ]
                  ELSE IF data.urls.kind # "array"
                  THEN /\ port' = postMessage(port, Success)
                       /\ job' = [ started EXCEPT !.pc = "done" ]
                  ELSE /\ port' = port
                       /\ job' = [ started EXCEPT !.pc = "preloadAudio.open" ]
             [] OTHER ->
                  /\ port' = port
                  /\ job' = [ started EXCEPT !.pc = "done" ]
    /\ UNCHANGED <<caches, now, ticks, task>>

\* getCacheSize: navigator.storage.estimate() settled; the promise the listener
\* gave to postMessage is fulfilled, and nobody waits for it
getCacheSizeEstimate(estimate) ==
    /\ job.pc = "getCacheSize.estimate"
    /\ job' = [ job EXCEPT !.pc = "done",
                           !.cacheSize = [ kind |-> "promise", state |-> "fulfilled",
                                           value |-> CacheSize(estimate) ] ]
    /\ UNCHANGED <<caches, now, ticks, events, task, port>>

\* clearCache('all'): caches.delete(CACHE_NAME) resolved; the listener replies
clearCacheDelete ==
    /\ job.pc = "clearCache.delete"
    /\ caches' = CachesDelete(caches, CACHE_NAME)
    /\ port' = postMessage(port, Success)
    /\ job' = [ job EXCEPT !.pc = "done" ]
    /\ UNCHANGED <<now, ticks, events, task>>

\* clearCache(cacheType): caches.open(CACHE_NAME) resolved
clearCacheOpen ==
    /\ job.pc = "clearCache.open"
    /\ caches' = CachesOpen(caches, CACHE_NAME)
    /\ job' = [ job EXCEPT !.pc = "clearCache.keys" ]
    /\ UNCHANGED <<now, ticks, events, task, port>>

\* clearCache(cacheType): cache.keys() resolved; the deletes are issued
clearCacheKeys ==
    /\ job.pc = "clearCache.keys"
    /\ job' = [ job EXCEPT !.pc = "clearCache.deleteAll",
                           !.requests = toDelete(CacheKeys(caches, CACHE_NAME),
                                                 job.data.cacheType) ]
    /\ UNCHANGED <<caches, now, ticks, events, task, port>>

\* clearCache(cacheType): the deletes resolved; the listener replies
clearCacheDeleteAll ==
    /\ job.pc = "clearCache.deleteAll"
    /\ caches' = CacheDeleteAll(caches, CACHE_NAME, job.requests)
    /\ port' = postMessage(port, Success)
    /\ job' = [ job EXCEPT !.pc = "done" ]
    /\ UNCHANGED <<now, ticks, events, task>>

\* preloadAudio: caches.open(CACHE_NAME) resolved; one fetch per URL starts;
\* with no URL Promise.all resolves at once and the listener replies
preloadAudioOpen ==
    /\ job.pc = "preloadAudio.open"
    /\ caches' = CachesOpen(caches, CACHE_NAME)
    /\ LET urls == job.data.urls.items
       IN  IF urls = <<>>
           THEN /\ job' = [ job EXCEPT !.pc = "done" ]
                /\ port' = postMessage(port, Success)
           ELSE /\ job' = [ job EXCEPT !.pc = "preloadAudio.all",
                               !.fetches = [ i \in 1..Len(urls) |->
                                   [ pc |-> "fetch", response |-> Undefined ] ] ]
                /\ port' = port
    /\ UNCHANGED <<now, ticks, events, task>>

\* preloadAudio: the callback of URL i is through; when it was the last one
\* Promise.all resolves and the listener replies
PreloadSettled(fetches, i) ==
    IF \A j \in DOMAIN fetches : j # i => fetches[j].pc = "done"
    THEN /\ job' = [ job EXCEPT !.pc = "done", !.fetches = fetches ]
         /\ port' = postMessage(port, Success)
    ELSE /\ job' = [ job EXCEPT !.fetches = fetches ]
         /\ port' = port

\* mutant: one failed fetch ends the whole preload
preloadAudioFetch_Aborts(i, outcome) ==
    /\ job.pc = "preloadAudio.all"
    /\ i \in DOMAIN job.fetches
    /\ job.fetches[i].pc = "fetch"
    /\ IF IsResponse(outcome) /\ Ok(outcome)
       THEN /\ job' = [ job EXCEPT !.fetches[i] =
                            [ pc |-> "put", response |-> outcome ] ]
            /\ port' = port
       ELSE /\ job' = [ job EXCEPT !.pc = "done", !.fetches[i] =
                            [ pc |-> "done", response |-> outcome ] ]
            /\ port' = postMessage(port, Success)
    /\ UNCHANGED <<caches, now, ticks, events, task>>

\* preloadAudio: fetch(url) of URL i settled; an ok response goes to cache.put
preloadAudioFetch(i, outcome) ==
    /\ job.pc = "preloadAudio.all"
    /\ i \in DOMAIN job.fetches
    /\ job.fetches[i].pc = "fetch"
    /\ IF IsResponse(outcome) /\ Ok(outcome)
       THEN /\ job' = [ job EXCEPT !.fetches[i] =
                            [ pc |-> "put", response |-> outcome ] ]
            /\ port' = port
       ELSE PreloadSettled([ job.fetches EXCEPT ![i] =
                                [ pc |-> "done", response |-> outcome ] ], i)
    /\ UNCHANGED <<caches, now, ticks, events, task>>

\* preloadAudio: cache.put(url, response) of URL i resolved: the response is
\* stored as the network gave it
preloadAudioPut(i) ==
    /\ job.pc = "preloadAudio.all"
    /\ i \in DOMAIN job.fetches
    /\ job.fetches[i].pc = "put"
    /\ caches' = CachePut(caches, CACHE_NAME,
                          Href(Url(job.data.urls.items[i], <<>>)),
                          job.fetches[i].response)
    /\ PreloadSettled([ job.fetches EXCEPT ![i].pc = "done" ], i)
    /\ UNCHANGED <<now, ticks, events, task>>

\* the sync listener, up to the fetch of updatePlaylistCache
SyncEvent(tag) ==
    /\ events < MaxEvents
    /\ JobThrough
    /\ events' = events + 1
    /\ job' = [ IdleJob EXCEPT !.kind = "sync", !.tag = tag,
                    !.pc = IF tag = "background-playlist-update"
                           THEN "updatePlaylistCache.fetch" ELSE "done" ]
    /\ UNCHANGED <<caches, now, ticks, task, port>>

\* mutant: updatePlaylistCache that stores a response of any status
updatePlaylistCacheFetch_AnyStatus(outcome) ==
    /\ job.pc = "updatePlaylistCache.fetch"
    /\ job' = IF IsResponse(outcome)
              THEN [ job EXCEPT !.pc = "updatePlaylistCache.open",
                                !.response = outcome ]
              ELSE [ job EXCEPT !.pc = "done", !.response = outcome ]
    /\ UNCHANGED <<caches, now, ticks, events, task, port>>

\* updatePlaylistCache: fetch('/data/playlist.json') settled
updatePlaylistCacheFetch(outcome) ==
    /\ job.pc = "updatePlaylistCache.fetch"
    /\ job' = IF IsResponse(outcome) /\ Ok(outcome)
              THEN [ job EXCEPT !.pc = "updatePlaylistCache.open",
                                !.response = outcome ]
              ELSE [ job EXCEPT !.pc = "done", !.response = outcome ]
    /\ UNCHANGED <<caches, now, ticks, events, task, port>>

\* updatePlaylistCache: caches.open(CACHE_NAME) resolved
updatePlaylistCacheOpen ==
    /\ job.pc = "updatePlaylistCache.open"
    /\ caches' = CachesOpen(caches, CACHE_NAME)
    /\ job' = [ job EXCEPT !.pc = "updatePlaylistCache.put" ]
    /\ UNCHANGED <<now, ticks, events, task, port>>

\* updatePlaylistCache: cache.put resolved: the response is stored as the
\* network gave it
updatePlaylistCachePut ==
    /\ job.pc = "updatePlaylistCache.put"
    /\ caches' = CachePut(caches, CACHE_NAME, Href(Url(PathPlaylist, <<>>)),
                          job.response)
    /\ job' = [ job EXCEPT !.pc = "done" ]
    /\ UNCHANGED <<now, ticks, events, task, port>>

----------------------------------------------------------------------------
(* The worker installing and serving messages and sync events, one handler *)
(* at a time.                                                              *)

PathSong  == <<"/","a","u","d","i","o","/","s","o","n","g",".","m","p","3">>
PathTrack == <<"/","a","u","d","i","o","/","t","r","a","c","k",".","o","g","g">>

\* the lists of URLs the page asks to preload
PreloadLists == { <<>>, <<PathSong>>, <<PathSong, PathTrack>>, <<PathApi, PathSong>> }

Messages ==
    { [ type |-> type, data |-> Undefined ] :
        type \in {"SKIP_WAITING", "GET_CACHE_STATUS", "CLEAR_CACHE",
                  "PRELOAD_AUDIO", "PING"} }
    \cup { [ type |-> "CLEAR_CACHE", data |-> Data(cacheType, Undefined) ] :
            cacheType \in {Undefined} \cup
                { Str(v) : v \in {"all", "images", "audio", "data", "fonts"} } }
    \cup { [ type |-> "PRELOAD_AUDIO", data |-> Data(Undefined, urls) ] :
            urls \in {Undefined} \cup { Array(l) : l \in PreloadLists } }

SyncTags == { "background-playlist-update", "background-analytics", "other" }

\* entries the strategies wrote while the page was used: one per category,
\* each stamped by cacheResponse
Warm ==
    [ k \in { Origin \o path : path \in {PathLogo, PathSong, PathPlaylist, PathScript} }
        |-> responseWithTimestamp(OkResponse(1), Days(0)) ]

InitWorker ==
    /\ caches \in { <<>>, << [ name |-> CACHE_NAME, entries |-> Warm ] >> }
    /\ now = Days(0)
    /\ ticks = 0
    /\ events = 0
    /\ task = [ t \in TaskIds |-> IdleTask ]
    /\ job = IdleJob
    /\ port = <<>>

NextWorker ==
    \/ InstallEvent
    \/ installOpen
    \/ \E odd \in 1..Len(STATIC_ASSETS), outcome \in NetOutcomes :
            installAddAll(odd, outcome)
    \/ \E m \in Messages : MessageEvent(m.type, m.data)
    \/ \E estimate \in Estimates : getCacheSizeEstimate(estimate)
    \/ clearCacheDelete
    \/ clearCacheOpen
    \/ clearCacheKeys
    \/ clearCacheDeleteAll
    \/ preloadAudioOpen
    \/ \E i \in 1..2, outcome \in NetOutcomes : preloadAudioFetch(i, outcome)
    \/ \E i \in 1..2 : preloadAudioPut(i)
    \/ \E tag \in SyncTags : SyncEvent(tag)
    \/ \E outcome \in NetOutcomes : updatePlaylistCacheFetch(outcome)
    \/ updatePlaylistCacheOpen
    \/ updatePlaylistCachePut

SpecWorker == InitWorker /\ [][NextWorker]_vars

\* the entries of the current generation
Entries(cs) ==
    IF HasCache(cs, CACHE_NAME) THEN cs[CacheIndex(cs, CACHE_NAME)].entries
    ELSE NoEntries

----------------------------------------------------------------------------
(* C12 -- stored-entry invariant, as stated: after any sequence of install, *)
(* message and sync events every entry of the store has a success status,  *)
(* is not opaque and is under the 10 MB ceiling: it passes shouldCache.     *)

C12_Original ==
    \A k \in DOMAIN Entries(caches) :
        LET entry == Entries(caches)[k]
        IN  /\ Ok(entry)
            /\ entry.type # "opaque"
            /\ shouldCache(entry)

----------------------------------------------------------------------------
(* C13 -- capture timestamp, as stated: every entry of the store carries   *)
(* an sw-cached-at header, whichever operation wrote it.                   *)

C13_Original ==
    \A k \in DOMAIN Entries(caches) :
        HasHeader(Entries(caches)[k].headers, "sw-cached-at")

----------------------------------------------------------------------------
(* C19 -- CLEAR_CACHE with cacheType 'audio', 'images' or 'data'.           *)

\* the handler that runs serves CLEAR_CACHE for one category
ClearsCategory ==
    /\ job.kind = "message"
    /\ job.type = "CLEAR_CACHE"
    /\ job.data # Undefined
    /\ job.data.cacheType \in { Str("audio"), Str("images"), Str("data") }

\* a URL of the category the handler clears
InClearedCategory(url) ==
    \/ job.data.cacheType = Str("audio")
         /\ \E e \in { <<"m","p","3">>, <<"w","a","v">>, <<"o","g","g">> } :
                EndsWith(url, <<".">> \o e)
    \/ job.data.cacheType = Str("images")
         /\ \E e \in { <<"p","n","g">>, <<"j","p","g">>, <<"j","p","e","g">>,
                       <<"g","i","f">>, <<"s","v","g">>, <<"i","c","o">> } :
                EndsWith(url, <<".">> \o e)
    \/ job.data.cacheType = Str("data")
         /\ EndsWith(url, <<".","j","s","o","n">>)

\* C19: the handler of CLEAR_CACHE for a category deletes every stored entry
\* whose URL ends in an extension of that category, leaves every other entry
\* and every other cache as they were, and replies {success: true} when the
\* deletes are through.
C19_ClearCategory ==
    /\ [][ ClearsCategory =>
             LET before == Entries(caches)
                 after  == Entries(caches')
             IN  /\ job.pc \in {"clearCache.open", "clearCache.keys"}
                    => after = before /\ port' = port
                 /\ (job.pc = "clearCache.deleteAll" /\ job'.pc = "done")
                    => /\ DOMAIN after =
                            { k \in DOMAIN before : ~InClearedCategory(k) }
                       /\ \A k \in DOMAIN after : after[k] = before[k]
                       /\ Len(caches') = Len(caches)
                       /\ port' = Append(port, [ success |-> TRUE ]) ]_vars
    /\ [](ClearsCategory /\ job.pc = "done"
            => /\ port # <<>>
               /\ port[Len(port)] = [ success |-> TRUE ]
               /\ \A k \in DOMAIN Entries(caches) : ~InClearedCategory(k))

\* the audio entries are gone, the image and the data entry are still stored,
\* and the page has its reply
C19_Witness ==
    /\ ClearsCategory
    /\ job.data.cacheType = Str("audio")
    /\ job.pc = "done"
    /\ Stored(Origin \o PathSong) = Undefined
    /\ IsResponse(Stored(Origin \o PathLogo))
    /\ IsResponse(Stored(Origin \o PathPlaylist))
    /\ port = << [ success |-> TRUE ] >>
    /\ job.requests = { Origin \o PathSong }

----------------------------------------------------------------------------
(* C20 -- GET_CACHE_STATUS, as stated: the worker replies with a message   *)
(* whose cacheSize field is the record {usage, quota, usagePercent} of the *)
(* storage estimate and whose cacheVersion field is the cache version.     *)

C20_Original ==
    (job.kind = "message" /\ job.type = "GET_CACHE_STATUS" /\ job.pc = "done")
        => /\ port # <<>>
           /\ DOMAIN port[Len(port)] = {"cacheSize", "cacheVersion"}
           /\ port[Len(port)].cacheVersion = CACHE_VERSION
           /\ port[Len(port)].cacheSize.kind = "size"
           /\ DOMAIN port[Len(port)].cacheSize
                = {"kind", "usage", "quota", "usagePercent"}

----------------------------------------------------------------------------
(* Expiration: the store holds one stamped entry per category, written at   *)
(* time T, and entries without a stamp; the page asks for them when the    *)
(* clock is around T plus a max-age.                                       *)

Ms(n) == [ d |-> 0, ms |-> n ]

\* the capture times of the stamped entries
Stamps == { Days(0), Ms(5), [ d |-> 2, ms |-> MsPerDay - 1 ] }

\* the ages at which the page asks: each max-age, one millisecond less, one more
Ages ==
    { Ms(0) } \cup { age : age \in { Days(1), Days(7), Days(30) } }
              \cup { TimeSub(age, Ms(1)) : age \in { Days(1), Days(7), Days(30) } }
              \cup { TimeAdd(age, Ms(1)) : age \in { Days(1), Days(7), Days(30) } }

\* the keys of the stamped entries: an image, an audio file, a JSON file, a
\* script, and a JSON file asked for with a query string
StampedUrls ==
    { Url(PathLogo, <<>>), Url(PathSong, <<>>), Url(PathPlaylist, <<>>),
      Url(PathScript, <<>>), Url(PathLangPl, <<"?","v","=","1">>) }

\* the keys of the entries without a stamp: a preloaded audio file and a
\* pre-warmed stylesheet
UnstampedUrls == { Url(PathTrack, <<>>), Url(PathStyles, <<>>) }

Aged(stamp) ==
    [ k \in { Href(url) : url \in StampedUrls \cup UnstampedUrls } |->
        IF k \in { Href(url) : url \in StampedUrls }
        THEN responseWithTimestamp(OkResponse(1), stamp)
        ELSE Response(NetBody(0), 200, "basic", PlainHeaders) ]

InitExpire ==
    /\ \E stamp \in Stamps, age \in Ages :
          /\ caches = << [ name |-> CACHE_NAME, entries |-> Aged(stamp) ] >>
          /\ now = TimeAdd(stamp, age)
    /\ ticks = 0
    /\ events = 0
    /\ task = [ t \in TaskIds |-> IdleTask ]
    /\ job = IdleJob
    /\ port = <<>>

NextExpire ==
    \/ \E t \in TaskIds, url \in StampedUrls \cup UnstampedUrls :
            FetchEvent(t, GetRequest(url))
    \/ \E t \in TaskIds : cacheFirstMatch(t)
    \/ \E t \in TaskIds : staleWhileRevalidateMatch(t)
    \/ \E delta \in { Ms(1), Days(1) } : Tick(delta)

SpecExpire == InitExpire /\ [][NextExpire]_vars

\* the time after which an entry stored at stamp under key is stale: images
\* 7 days, audio 30 days, JSON 1 day, everything else 7 days, the category
\* being that of the extension the URL ends in
StaleAfter(key, stamp) ==
    LET days == IF EndsWith(key, <<".","j","s","o","n">>) THEN 1
                ELSE IF \E e \in { <<".","m","p","3">>, <<".","w","a","v">>,
                                   <<".","o","g","g">> } : EndsWith(key, e) THEN 30
                ELSE 7
    IN  [ d |-> stamp.d + days, ms |-> stamp.ms ]

Later(a, b) == a.d > b.d \/ (a.d = b.d /\ a.ms > b.ms)

Stamped(response) ==
    IsResponse(response) /\ HasHeader(response.headers, "sw-cached-at")

\* slot t reads the store in this step
Matches(t) ==
    Steps(t, "cacheFirst.match") \/ Steps(t, "staleWhileRevalidate.match")

----------------------------------------------------------------------------
(* C14 -- expiration: an entry with capture timestamp T is judged stale     *)
(* exactly when now - T is strictly greater than the max-age of its        *)
(* category (images 7 days, audio 30 days, JSON 1 day, everything else 7   *)
(* days): a strategy that finds it goes to the network exactly when now is *)
(* later than T + max-age; a JSON entry is stale at T + 1 day + 1 ms and   *)
(* not stale at T + 1 day - 1 ms nor at T + 1 day.                         *)

C14_Expiration ==
    /\ [](\A k \in DOMAIN Entries(caches) :
            LET entry == Entries(caches)[k]
                T == entry.headers["sw-cached-at"]
            IN  Stamped(entry)
                  => /\ isExpired(entry, k) <=> Later(now, StaleAfter(k, T))
                     /\ EndsWith(k, <<".","j","s","o","n">>)
                          => /\ now = [ d |-> T.d + 1, ms |-> T.ms ]
                                  => ~isExpired(entry, k)
                             /\ (T.ms < MsPerDay - 1
                                    /\ now = [ d |-> T.d + 1, ms |-> T.ms + 1 ])
                                  => isExpired(entry, k)
                             /\ (T.ms > 0
                                    /\ now = [ d |-> T.d + 1, ms |-> T.ms - 1 ])
                                  => ~isExpired(entry, k)
                             /\ (T.ms = MsPerDay - 1
                                    /\ now = [ d |-> T.d + 2, ms |-> 0 ])
                                  => isExpired(entry, k)
                             /\ (T.ms = 0
                                    /\ now = [ d |-> T.d, ms |-> MsPerDay - 1 ])
                                  => ~isExpired(entry, k))
    /\ [][ \A t \in TaskIds :
             (Matches(t) /\ Stamped(Found(t)))
                 => LET T == Found(t).headers["sw-cached-at"]
                        stale == Later(now, StaleAfter(Key(task[t]), T))
                    IN  /\ stale => task'[t].handled = Undefined /\ task'[t].fetched
                        /\ ~stale => task'[t].handled = Found(t) ]_vars

\* a JSON entry one millisecond past its day: stale-while-revalidate found it
\* and waits for the network
C14_Witness ==
    \E t \in TaskIds :
        /\ task[t].pc = "staleWhileRevalidate.fetch"
        /\ Key(task[t]) = Origin \o PathPlaylist
        /\ Stamped(task[t].cachedResponse)
        /\ now = TimeAdd(task[t].cachedResponse.headers["sw-cached-at"],
                         [ d |-> 1, ms |-> 1 ])
        /\ task[t].handled = Undefined

----------------------------------------------------------------------------
(* C15 -- an entry without a capture timestamp is never judged stale:      *)
(* cache-first and stale-while-revalidate return it as a fresh hit at any  *)
(* time, cache-first without going to the network.                         *)

C15_NoTimestampNeverStale ==
    /\ [](\A k \in DOMAIN Entries(caches) :
            ~HasHeader(Entries(caches)[k].headers, "sw-cached-at")
                => ~isExpired(Entries(caches)[k], k))
    /\ [][ \A t \in TaskIds :
             (Matches(t) /\ IsResponse(Found(t)) /\ ~Stamped(Found(t)))
                 => /\ task'[t].handled = Found(t)
                    /\ task'[t].result = Found(t)
                    /\ Strategy(t) = CACHE_STRATEGIES.CACHE_FIRST
                         => ~task'[t].fetched /\ task'[t].pc = "done" ]_vars

\* a preloaded audio file served by cache-first more than 30 days after every
\* stamped entry was written
C15_Witness ==
    \E t \in TaskIds :
        /\ Strategy(t) = CACHE_STRATEGIES.CACHE_FIRST
        /\ task[t].pc = "done"
        /\ Key(task[t]) = Origin \o PathTrack
        /\ IsResponse(task[t].cachedResponse)
        /\ ~Stamped(task[t].cachedResponse)
        /\ task[t].result = task[t].cachedResponse
        /\ ~task[t].fetched
        /\ now.d >= 30

----------------------------------------------------------------------------
(* Activation: the purge of the old generations and enforceQuotaLimits,    *)
(* started together by Promise.all.                                        *)

\* mutant: the other assets have the ceiling of the images
CACHE_LIMITS_WithOther == [ images |-> 50, audio |-> 20, data |-> 10, other |-> 50 ]

CACHE_LIMITS == [ images |-> 50, audio |-> 20, data |-> 10 ]

CachePrefix == <<"r","a","d","i","o","-","a","d","a","m","o","w","o","-">>

\* the characters of the URLs in collation order (punctuation, digits,
\* letters), as String.prototype.localeCompare orders them
Collation ==
    << "-", ":", "?", ".", "/", "=",
       "0", "1", "2", "3", "4", "5", "6", "7", "8", "9",
       "a", "b", "c", "d", "e", "f", "g", "h", "i", "j", "k", "l", "m",
       "n", "o", "p", "q", "r", "s", "t", "u", "v", "w", "x", "y", "z" >>

CollationRank(c) == CHOOSE i \in 1..Len(Collation) : Collation[i] = c

\* a.localeCompare(b): negative, zero or positive
RECURSIVE localeCompare(_, _)
localeCompare(a, b) ==
    IF a = <<>> /\ b = <<>> THEN 0
    ELSE IF a = <<>> THEN -1
    ELSE IF b = <<>> THEN 1
    ELSE IF Head(a) # Head(b)
    THEN CollationRank(Head(a)) - CollationRank(Head(b))
    ELSE localeCompare(Tail(a), Tail(b))

\* the grouping of enforceQuotaLimits: the first pattern the URL matches
GroupOf(url) ==
    IF EndsWithDotExt(url, ExtImage) THEN "images"
    ELSE IF EndsWithDotExt(url, ExtAudio) THEN "audio"
    ELSE IF EndsWithDotExt(url, ExtJson) THEN "data"
    ELSE "other"

Grouped(requests, type) == { url \in requests : GroupOf(url) = type }

\* mutant: the tail of the sorted list is removed
toRemove_Tail(requests, limit) ==
    { r \in requests :
        Cardinality({ q \in requests : localeCompare(q, r) < 0 }) >= limit }

\* mutant: one entry too few is removed
toRemove_OneTooFew(requests, limit) ==
    { r \in requests :
        Cardinality({ q \in requests : localeCompare(q, r) < 0 })
            < Cardinality(requests) - limit - 1 }

\* requests.sort((a, b) => a.url.localeCompare(b.url)).slice(0, length - limit):
\* the requests with fewer than length - limit requests sorted before them
toRemove(requests, limit) ==
    { r \in requests :
        Cardinality({ q \in requests : localeCompare(q, r) < 0 })
            < Cardinality(requests) - limit }

\* the for loop over Object.entries(grouped): the next type after position
\* from that has a limit and holds more requests than it
TypeOrder == << "images", "audio", "data", "other" >>

Exceeding(requests, from) ==
    { i \in (from + 1)..Len(TypeOrder) :
        /\ TypeOrder[i] \in DOMAIN CACHE_LIMITS
        /\ Cardinality(Grouped(requests, TypeOrder[i])) > CACHE_LIMITS[TypeOrder[i]] }

TypeIndex(type) == CHOOSE i \in 1..Len(TypeOrder) : TypeOrder[i] = type

\* the loop goes on from position from: it stops at the next await, or ends
LoopFrom(j, from) ==
    LET next == Exceeding(j.requests, from)
    IN  IF next = {} THEN [ j EXCEPT !.pc = "done", !.group = "" ]
        ELSE [ j EXCEPT !.pc = "enforce.delete",
                        !.group = TypeOrder[CHOOSE i \in next : \A k \in next : i <= k] ]

\* mutant: every cache but the current one is taken for an old generation
OldCaches_NoPrefix(cacheNames) ==
    { cacheName \in cacheNames : cacheName # CACHE_NAME }

\* the caches the activate listener deletes
OldCaches(cacheNames) ==
    { cacheName \in cacheNames :
        cacheName # CACHE_NAME /\ StartsWith(cacheName, CachePrefix) }

\* the activate listener: caches.keys() and enforceQuotaLimits() are started
ActivateEvent ==
    /\ events < MaxEvents
    /\ JobThrough
    /\ job.kind # "activate"
    /\ events' = events + 1
    /\ job' = [ IdleJob EXCEPT !.kind = "activate", !.purge = "purge.keys",
                               !.pc = "enforce.open" ]
    /\ UNCHANGED <<caches, now, ticks, task, port>>

\* activate: caches.keys() resolved; caches.delete is called for each old cache
purgeKeys ==
    /\ job.purge = "purge.keys"
    /\ LET names == OldCaches({ caches[i].name : i \in 1..Len(caches) })
       IN  job' = [ job EXCEPT !.names = names, !.pending = names,
                        !.purge = IF names = {} THEN "done" ELSE "purge.delete" ]
    /\ UNCHANGED <<caches, now, ticks, events, task, port>>

\* activate: caches.delete(cacheName) resolved
purgeDelete(cacheName) ==
    /\ job.purge = "purge.delete"
    /\ cacheName \in job.pending
    /\ caches' = CachesDelete(caches, cacheName)
    /\ job' = [ job EXCEPT !.pending = job.pending \ {cacheName},
                    !.purge = IF job.pending = {cacheName} THEN "done"
                              ELSE "purge.delete" ]
    /\ UNCHANGED <<now, ticks, events, task, port>>

\* mutant: enforceQuotaLimits run again whenever a sync handler is through
enforceOpen_AfterSync ==
    /\ job.pc = "enforce.open" \/ (job.kind = "sync" /\ job.pc = "done")
    /\ caches' = CachesOpen(caches, CACHE_NAME)
    /\ job' = [ job EXCEPT !.pc = "enforce.keys" ]
    /\ UNCHANGED <<now, ticks, events, task, port>>

\* enforceQuotaLimits: caches.open(CACHE_NAME) resolved
enforceOpen ==
    /\ job.pc = "enforce.open"
    /\ caches' = CachesOpen(caches, CACHE_NAME)
    /\ job' = [ job EXCEPT !.pc = "enforce.keys" ]
    /\ UNCHANGED <<now, ticks, events, task, port>>

\* enforceQuotaLimits: cache.keys() resolved; the requests are grouped and the
\* loop runs to the deletes of the first type over its limit
enforceKeys ==
    /\ job.pc = "enforce.keys"
    /\ job' = LoopFrom([ job EXCEPT !.requests = CacheKeys(caches, CACHE_NAME) ], 0)
    /\ UNCHANGED <<caches, now, ticks, events, task, port>>

\* enforceQuotaLimits: the deletes of one type resolved; the loop goes on
enforceDelete ==
    /\ job.pc = "enforce.delete"
    /\ caches' = CacheDeleteAll(caches, CACHE_NAME,
                    toRemove(Grouped(job.requests, job.group), CACHE_LIMITS[job.group]))
    /\ job' = LoopFrom(job, TypeIndex(job.group))
    /\ UNCHANGED <<now, ticks, events, task, port>>

----------------------------------------------------------------------------
(* The worker activating over the CacheStorage of the origin: the current  *)
(* cache filled up to or over its limits, old generations, other caches.   *)

Digits == << "0", "1", "2", "3", "4", "5", "6", "7", "8", "9" >>

TwoDigits(n) == << Digits[(n \div 10) + 1], Digits[(n % 10) + 1] >>

File(dir, stem, ext) == Origin \o <<"/", dir, "/">> \o stem \o Dot(ext)

\* one entry less than the limit of each type, then entries that sort before,
\* between and after them
ImageBase ==
    { File("i", TwoDigits(n), <<"p","n","g">>) : n \in 0..(CACHE_LIMITS.images - 2) }
ImageExtras ==
    { File("i", <<"0">>, <<"p","n","g">>), File("i", <<"2","5","x">>, <<"j","p","g">>),
      File("i", <<"z">>, <<"s","v","g">>) }

AudioBase ==
    { File("m", TwoDigits(n), <<"m","p","3">>) : n \in 0..(CACHE_LIMITS.audio - 2) }
AudioExtras ==
    << File("m", <<"0">>, <<"o","g","g">>), File("m", <<"z">>, <<"w","a","v">>) >>

\* the JSON files of STATIC_ASSETS count as data
DataBase ==
    { k \in DOMAIN Precached : GroupOf(k) = "data" }
        \cup { File("d", TwoDigits(n), <<"j","s","o","n">>) :
                n \in 0..(CACHE_LIMITS.data - 2 - 5) }
DataExtras ==
    << File("d", <<"0">>, <<"j","s","o","n">>), File("m", <<"z">>, <<"j","s","o","n">>) >>

\* entries of no capped type: the other static assets, an image asked for
\* with a query string
OtherKeys ==
    { k \in DOMAIN Precached : GroupOf(k) = "other" }
        \cup { File("i", <<"0","0">>, <<"p","n","g">>) \o <<"?","v","=","1">> }

StoreOf(keys) ==
    [ k \in keys |-> IF k \in DOMAIN Precached THEN Precached[k]
                     ELSE responseWithTimestamp(OkResponse(1), Days(0)) ]

\* the other caches of the origin: two old generations, a cache whose name
\* lacks the dash of the prefix, a cache of another application
OtherCaches ==
    << [ name |-> CachePrefix \o <<"v","0">>, entries |-> Precached ],
       [ name |-> CACHE_NAME \o <<"0">>, entries |-> NoEntries ],
       [ name |-> SubSeq(CachePrefix, 1, Len(CachePrefix) - 1), entries |-> Precached ],
       [ name |-> <<"o","t","h","e","r">>, entries |-> StoreOf(ImageExtras) ] >>

\* the current cache was created first unless an old generation exists
InitActivate ==
    /\ \E others \in SUBSET (1..Len(OtherCaches)),
          images \in SUBSET ImageExtras, extras \in SUBSET (1..2) :
          LET current == [ name |-> CACHE_NAME,
                           entries |-> StoreOf(ImageBase \cup images
                                \cup AudioBase \cup { AudioExtras[i] : i \in extras }
                                \cup DataBase \cup { DataExtras[i] : i \in extras }
                                \cup OtherKeys) ]
              before == SelectSeq(OtherCaches,
                            LAMBDA c : \E i \in others : OtherCaches[i] = c)
          IN  caches = IF 1 \in others THEN before \o <<current>>
                       ELSE <<current>> \o before
    /\ now = Days(0)
    /\ ticks = 0
    /\ events = 0
    /\ task = [ t \in TaskIds |-> IdleTask ]
    /\ job = IdleJob
    /\ port = <<>>

NextActivate ==
    \/ ActivateEvent
    \/ purgeKeys
    \/ \E i \in 1..Len(OtherCaches) : purgeDelete(OtherCaches[i].name)
    \/ enforceOpen
    \/ enforceKeys
    \/ enforceDelete

SpecActivate == InitActivate /\ [][NextActivate]_vars

\* the characters of the URLs by code unit
CodeUnits ==
    << "-", ".", "/",
       "0", "1", "2", "3", "4", "5", "6", "7", "8", "9", ":", "=", "?",
       "a", "b", "c", "d", "e", "f", "g", "h", "i", "j", "k", "l", "m",
       "n", "o", "p", "q", "r", "s", "t", "u", "v", "w", "x", "y", "z" >>

CodeUnit(c) == CHOOSE i \in 1..Len(CodeUnits) : CodeUnits[i] = c

\* a sorts before b in lexicographic order
RECURSIVE LexLess(_, _)
LexLess(a, b) ==
    IF b = <<>> THEN FALSE
    ELSE IF a = <<>> THEN TRUE
    ELSE IF Head(a) # Head(b) THEN CodeUnit(Head(a)) < CodeUnit(Head(b))
    ELSE LexLess(Tail(a), Tail(b))

Activating == job.kind = "activate"

Activated == Activating /\ job.pc = "done" /\ job.purge = "done"

\* the deletes of enforceQuotaLimits for one type resolve in this step
Evicts == job.pc = "enforce.delete" /\ (job'.pc # job.pc \/ job'.group # job.group)

\* the stored URLs of a type
Category(cs, type) == Grouped(CacheKeys(cs, CACHE_NAME), type)

----------------------------------------------------------------------------
(* C16 -- quota enforcement: when enforceQuotaLimits completes, each capped *)
(* type holds at most its ceiling (images 50, audio 20, data 10); a type    *)
(* with n entries, n over its ceiling c, loses exactly n - c entries and    *)
(* the c entries that remain are the lexicographically largest URLs; a     *)
(* type at or under its ceiling loses none.                                *)

C16_QuotaEnforcement ==
    /\ [](Activating /\ job.pc = "done"
            => /\ Cardinality(Category(caches, "images")) <= 50
               /\ Cardinality(Category(caches, "audio")) <= 20
               /\ Cardinality(Category(caches, "data")) <= 10)
    /\ [][ Activating =>
             /\ Evicts
                => LET had  == Category(caches, job.group)
                       kept == Category(caches', job.group)
                       c    == CACHE_LIMITS[job.group]
                   IN  /\ Cardinality(had) > c
                       /\ kept \subseteq had
                       /\ Cardinality(had \ kept) = Cardinality(had) - c
                       /\ Cardinality(kept) = c
                       /\ \A e \in had \ kept, k \in kept : LexLess(e, k)
                       /\ \A type \in {"images", "audio", "data", "other"} \ {job.group} :
                            Category(caches', type) = Category(caches, type)
             /\ ~Evicts => Entries(caches') = Entries(caches)
             /\ (job.pc = "enforce.keys" /\ job'.pc = "done")
                => \A type \in DOMAIN CACHE_LIMITS :
                     Cardinality(Category(caches, type)) <= CACHE_LIMITS[type] ]_vars

\* 52 images were stored: the two smallest are gone and the 50 largest remain
C16_Witness ==
    /\ Activating
    /\ job.pc = "done"
    /\ Cardinality(Grouped(job.requests, "images")) = 52
    /\ Cardinality(Category(caches, "images")) = 50
    /\ Stored(File("i", <<"0">>, <<"p","n","g">>)) = Undefined
    /\ Stored(File("i", <<"0","0">>, <<"p","n","g">>)) = Undefined
    /\ IsResponse(Stored(File("i", <<"0","1">>, <<"p","n","g">>)))
    /\ IsResponse(Stored(File("i", <<"z">>, <<"s","v","g">>)))

----------------------------------------------------------------------------
(* C17 -- the order of eviction.                                           *)

\* how many URLs of the set sort before url
Before(urls, url) == Cardinality({ q \in urls : LexLess(q, url) })

\* C17 as stated: the entries evicted are the ones sorted last in
\* lexicographic URL order and the smallest-sorted entries are kept.
C17_Original ==
    [][ (Activating /\ Evicts)
          => LET had == Category(caches, job.group)
                 c   == CACHE_LIMITS[job.group]
             IN  Category(caches', job.group) = { r \in had : Before(had, r) < c } ]_vars

\* C17 amended: the entries evicted are the ones sorted first in lexicographic
\* URL order (the head of the sorted list) and the largest-sorted entries
\* are kept.
C17_EvictsHead ==
    [][ (Activating /\ Evicts)
          => LET had == Category(caches, job.group)
                 n   == Cardinality(had)
                 c   == CACHE_LIMITS[job.group]
             IN  /\ had \ Category(caches', job.group)
                        = { r \in had : Before(had, r) < n - c }
                 /\ Category(caches', job.group)
                        = { r \in had : Before(had, r) >= n - c } ]_vars

\* of 11 data entries the smallest was evicted and the largest is kept
C17_Witness ==
    /\ Activating
    /\ job.pc = "done"
    /\ Cardinality(Grouped(job.requests, "data")) = 11
    /\ File("d", <<"0">>, <<"j","s","o","n">>) \in job.requests
    /\ Stored(File("d", <<"0">>, <<"j","s","o","n">>)) = Undefined
    /\ IsResponse(Stored(File("d", <<"0","0">>, <<"j","s","o","n">>)))
    /\ IsResponse(Stored(Origin \o PathManifest))

----------------------------------------------------------------------------
(* C18 -- activation purge: when activation completes every cache whose    *)
(* name starts with 'radio-adamowo-' and is not the current name has been  *)
(* deleted and the current cache exists once; no step of the activation    *)
(* deletes or changes a cache without the prefix, and the purge removes no *)
(* entry of the current cache.                                             *)

Names(cs) == { cs[i].name : i \in 1..Len(cs) }

C18_ActivationPurge ==
    /\ [](Activated
            => /\ \A i \in 1..Len(caches) :
                    StartsWith(caches[i].name, CachePrefix)
                        => caches[i].name = CACHE_NAME
               /\ Cardinality({ i \in 1..Len(caches) : caches[i].name = CACHE_NAME }) = 1)
    /\ [][ Activating =>
             /\ \A name \in Names(caches) \ Names(caches') :
                    name # CACHE_NAME /\ StartsWith(name, CachePrefix)
             /\ \A i \in 1..Len(caches) :
                    ~StartsWith(caches[i].name, CachePrefix)
                        => \E j \in 1..Len(caches') : caches'[j] = caches[i]
             /\ job'.purge # job.purge \/ job'.pending # job.pending
                    => Entries(caches') = Entries(caches) ]_vars

\* two old generations were deleted; the cache of the other application, the
\* cache named without the dash and the current entries are still there
C18_Witness ==
    /\ Activated
    /\ Cardinality(job.names) = 2
    /\ Names(caches) = { CACHE_NAME, <<"o","t","h","e","r">>,
                         SubSeq(CachePrefix, 1, Len(CachePrefix) - 1) }
    /\ \E i \in 1..Len(caches) :
          caches[i].name = <<"o","t","h","e","r">> /\ caches[i].entries # NoEntries
    /\ IsResponse(Stored(Origin \o PathIndex))

----------------------------------------------------------------------------
(* C21 -- PRELOAD_AUDIO with a list of URLs.                               *)

\* the handler that runs serves PRELOAD_AUDIO with an array of URLs
Preloads ==
    /\ job.kind = "message"
    /\ job.type = "PRELOAD_AUDIO"
    /\ job.data # Undefined
    /\ job.data.urls.kind = "array"

\* the key under which URL number i of the list is stored
PreloadKey(i) == Origin \o job.data.urls.items[i]

\* fetch of URL number i resolved with a success status
PreloadOk(fetches, i) ==
    IsResponse(fetches[i].response) /\ Ok(fetches[i].response)

\* C21: PRELOAD_AUDIO with a list of URLs stores, in the current generation,
\* every listed URL whose fetch resolves with a success status, whatever route
\* rule its path matches; a fetch that fails stores nothing and does not keep
\* the other URLs from being stored; the worker replies {success: true} once,
\* when every fetch has settled and every write is through.
C21_PreloadAudio ==
    /\ [](Preloads /\ job.pc = "done"
            => /\ \A i \in DOMAIN job.fetches :
                    /\ job.fetches[i].pc = "done"
                    /\ job.fetches[i].response # Undefined
                    /\ PreloadOk(job.fetches, i)
                        => Stored(PreloadKey(i)) \in
                             { job.fetches[j].response :
                                 j \in { n \in DOMAIN job.fetches :
                                           /\ PreloadKey(n) = PreloadKey(i)
                                           /\ PreloadOk(job.fetches, n) } }
               /\ port # <<>>
               /\ port[Len(port)] = [ success |-> TRUE ])
    /\ [][ (Preloads /\ job.pc = "preloadAudio.all")
             => LET before == Entries(caches)
                    after  == Entries(caches')
                    settled == \A i \in DOMAIN job'.fetches :
                                  job'.fetches[i].pc = "done"
                IN  /\ port' = IF settled
                               THEN Append(port, [ success |-> TRUE ]) ELSE port
                    /\ job'.pc = IF settled THEN "done" ELSE "preloadAudio.all"
                    /\ \A i \in DOMAIN job.fetches :
                          /\ (job.fetches[i].pc = "fetch" /\ job'.fetches[i].pc = "put")
                             => PreloadOk(job'.fetches, i) /\ after = before
                          /\ (job.fetches[i].pc = "fetch" /\ job'.fetches[i].pc = "done")
                             => ~PreloadOk(job'.fetches, i) /\ after = before
                          /\ (job.fetches[i].pc = "put" /\ job'.fetches[i].pc = "done")
                             => /\ after[PreloadKey(i)] = job.fetches[i].response
                                /\ \A k \in DOMAIN before :
                                      k # PreloadKey(i) => after[k] = before[k] ]_vars

\* a list of an API path and a song: the fetch of the song failed, the API
\* response is stored although its route is network-only, and the page has
\* its reply
C21_Witness ==
    /\ Preloads
    /\ job.pc = "done"
    /\ job.data.urls.items = <<PathApi, PathSong>>
    /\ RouteStrategy(PathApi) = CACHE_STRATEGIES.NETWORK_ONLY
    /\ job.fetches[2].response = Rejected
    /\ PreloadOk(job.fetches, 1)
    /\ Stored(Origin \o PathApi) = job.fetches[1].response
    /\ Stored(Origin \o PathSong) = Undefined
    /\ port = << [ success |-> TRUE ] >>

----------------------------------------------------------------------------
(* C22 -- stale-while-revalidate, the same request twice.                  *)

\* slots t and u run stale-while-revalidate for the same key
SameRevalidated(t, u) ==
    /\ t # u
    /\ Strategy(t) = SWR
    /\ Strategy(u) = SWR
    /\ Key(task[t]) = Key(task[u])

\* C22 as stated: when the same request is issued twice with no clock advance
\* in between and both calls find a non-expired entry, both calls return the
\* same cached response, however the first call's fetch and store write
\* interleave with the second call's cache read.
C22_Original ==
    \A t, u \in TaskIds :
        (/\ SameRevalidated(t, u)
         /\ ServedFromStore(t)
         /\ ServedFromStore(u)
         /\ ticks = 0)
            => task[t].result = task[u].result

\* C22 amended: when the same request is issued twice in quick succession
\* against a store holding a non-expired entry for K, each call returns, at
\* once and without changing the store, the entry the store holds at the
\* moment of its cache read; the two calls return the same response when the
\* second call's read comes before the first call's store write, and the
\* second call returns the newly written entry when the write came first.
C22_ReadsCurrentEntry ==
    [][ \A t, u \in TaskIds :
          (/\ Steps(u, "staleWhileRevalidate.match")
           /\ SameRevalidated(t, u)
           /\ ServedFromStore(t)
           /\ FreshHit(u))
              => /\ task'[u].handled = Found(u)
                 /\ task'[u].result = Found(u)
                 /\ caches' = caches
                 /\ Found(u) = task[t].cachedResponse
                      => task'[u].result = task[t].result
                 /\ (Wrote(t) /\ task[t].stamp = now)
                      => task'[u].result =
                           responseWithTimestamp(task[t].networkResponse,
                                                 task[t].stamp) ]_vars

\* the first call got the precached entry, its revalidation wrote a new body,
\* and the second call, issued meanwhile, got the new entry
C22_Witness ==
    \E t, u \in TaskIds :
        /\ SameRevalidated(t, u)
        /\ ServedFromStore(t)
        /\ ServedFromStore(u)
        /\ ticks = 0
        /\ Wrote(t)
        /\ task[u].result = responseWithTimestamp(task[t].networkResponse, task[t].stamp)
        /\ task[u].result.body # task[t].result.body

----------------------------------------------------------------------------
(* C23 -- overlapping writes of one key.                                   *)

\* what cacheResponse of slot t hands to cache.put
Written(t) == responseWithTimestamp(task[t].networkResponse, task[t].stamp)

\* C23: for any interleaving of overlapping strategy tasks that write the same
\* key K, the store holds one entry for K; every completed write replaces the
\* entry by exactly the response it was given and touches no other key, and
\* nothing else changes the entry, so that once all tasks have finished the
\* entry is the response of the write that completed last.
C23_LastWriteWins ==
    /\ [][ LET before == Entries(caches)
               after  == Entries(caches')
           IN  /\ \A t \in TaskIds :
                    Steps(t, "cacheResponse.put")
                        => /\ after[Key(task[t])] = Written(t)
                           /\ DOMAIN after = DOMAIN before \cup {Key(task[t])}
                           /\ \A k \in DOMAIN before :
                                 k # Key(task[t]) => after[k] = before[k]
               /\ after # before
                    => \E t \in TaskIds : Steps(t, "cacheResponse.put") ]_vars
    /\ [](\A t, u \in TaskIds :
            (t # u /\ Wrote(t) /\ Wrote(u) /\ Key(task[t]) = Key(task[u]))
                => Stored(Key(task[t])) \in { Written(t), Written(u) })

\* two overlapping tasks wrote the same key with different bodies: the task
\* that built its copy first completed its write last, and its copy, with the
\* earlier capture time, is the entry
C23_Witness ==
    \E t, u \in TaskIds :
        /\ t # u
        /\ Wrote(t)
        /\ Wrote(u)
        /\ Key(task[t]) = Key(task[u])
        /\ task[t].networkResponse.body # task[u].networkResponse.body
        /\ TimeGt(task[u].stamp, task[t].stamp)
        /\ Stored(Key(task[t])) = Written(t)

----------------------------------------------------------------------------
(* C24 -- networkOnly: the strategy always issues a fetch, never reads the  *)
(* store and never writes it; it settles with what the fetch settles with, *)
(* so that a rejected fetch fails the strategy even when an entry for K is *)
(* stored.                                                                 *)

C24_NetworkOnly ==
    /\ [](\A t \in TaskIds :
            Strategy(t) = CACHE_STRATEGIES.NETWORK_ONLY
                => /\ task[t].fetched
                   /\ task[t].pc \in {"networkOnly.fetch", "done"}
                   /\ task[t].cachedResponse = Undefined
                   /\ task[t].stamp = Undefined
                   /\ task[t].pc = "networkOnly.fetch"
                        => task[t].handled = Undefined
                           /\ task[t].networkResponse = Undefined
                   /\ task[t].pc = "done"
                        => /\ task[t].networkResponse # Undefined
                           /\ task[t].networkResponse = Rejected
                                => task[t].handled = Thrown
                           /\ IsResponse(task[t].networkResponse)
                                => task[t].handled = task[t].networkResponse)
    /\ [][ \A t \in TaskIds :
             Steps(t, "networkOnly.fetch")
                 => /\ caches' = caches
                    /\ task'[t].pc = "done"
                    /\ task'[t].networkResponse # Undefined ]_vars

\* the fetch rejected while an entry for K is stored: the strategy failed and
\* the page was given the 503 substitute, not the entry
C24_Witness ==
    \E t \in TaskIds :
        /\ Strategy(t) = CACHE_STRATEGIES.NETWORK_ONLY
        /\ task[t].pc = "done"
        /\ task[t].networkResponse = Rejected
        /\ IsResponse(Stored(Key(task[t])))
        /\ task[t].handled = Thrown
        /\ task[t].result = createErrorResponse

----------------------------------------------------------------------------
(* The fetch listener on requests of any method and scheme: the page, and  *)
(* an extension of the browser, ask for an image and for an API path.      *)

HttpProtocol      == <<"h","t","t","p",":">>
ExtensionProtocol == <<"c","h","r","o","m","e","-","e","x","t","e","n","s","i","o","n",":">>

Methods == { "GET", "POST", "HEAD" }

AnyRequests ==
    { [ url |-> [ protocol |-> protocol, pathname |-> pathname, search |-> <<>> ],
        method |-> method ] :
        protocol \in { HttpsProtocol, HttpProtocol, ExtensionProtocol },
        pathname \in { PathLogo, PathApi },
        method \in Methods }

NextIntercept ==
    \/ \E t \in TaskIds, request \in AnyRequests : FetchEvent(t, request)
    \/ \E t \in TaskIds : cacheFirstMatch(t)
    \/ \E t \in TaskIds, outcome \in NetOutcomes : cacheFirstFetch(t, outcome)
    \/ \E t \in TaskIds, outcome \in NetOutcomes : networkOnly(t, outcome)
    \/ \E t \in TaskIds : cacheResponseOpen(t)
    \/ \E t \in TaskIds : cacheResponsePut(t)

SpecIntercept == InitRoute /\ [][NextIntercept]_vars

\* the request of slot t is one the listener does not handle
NotIntercepted(t) ==
    \/ task[t].request.method # "GET"
    \/ task[t].request.url.protocol \notin { HttpProtocol, HttpsProtocol }

----------------------------------------------------------------------------
(* C25 -- pass-through: for every request whose method is not GET or whose *)
(* scheme is not http or https, the fetch handler supplies no response,    *)
(* runs no strategy, and neither reads nor writes the store.               *)

C25_PassThrough ==
    /\ [](\A t \in TaskIds :
            (task[t].pc # "idle" /\ NotIntercepted(t))
                => /\ task[t].result = PassThrough
                   /\ task[t].handled = Undefined
                   /\ task[t].strategy = ""
                   /\ task[t].pc = "done"
                   /\ ~task[t].fetched
                   /\ task[t].networkResponse = Undefined
                   /\ task[t].cachedResponse = Undefined
                   /\ task[t].stamp = Undefined)
    /\ [][ \A t \in TaskIds :
             (task'[t].pc # "idle" /\ task'[t] # task[t]
                 /\ task'[t].result = PassThrough)
                 => caches' = caches ]_vars

\* a POST left to the browser while the GET of an image is being served
C25_Witness ==
    \E t, u \in TaskIds :
        /\ task[t].pc = "done"
        /\ task[t].result = PassThrough
        /\ task[t].request.method = "POST"
        /\ task[t].request.url.protocol = HttpsProtocol
        /\ task[u].pc = "cacheFirst.fetch"
        /\ task[u].request.method = "GET"
        /\ task[u].request.url.pathname = task[t].request.url.pathname

----------------------------------------------------------------------------
(* Install.                                                                *)

\* the install handler is through: the promise given to waitUntil settled
Installed == job.kind = "install" /\ job.pc = "done"

\* the key of manifest asset number i
AssetKey(i) == Origin \o STATIC_ASSETS[i]

----------------------------------------------------------------------------
(* C26 -- install, as stated: on every install event the manifest of static *)
(* assets is stored in the current generation and skip-waiting is          *)
(* signalled, so that an installing worker never remains waiting.          *)

C26_Original ==
    Installed
        => /\ \A i \in 1..Len(STATIC_ASSETS) : IsResponse(Stored(AssetKey(i)))
           /\ job.skipWaiting

----------------------------------------------------------------------------
(* C27 -- install failure handling, as stated: when the pre-fetch of one   *)
(* manifest asset fails the install still completes and the other manifest *)
(* assets are stored.                                                      *)

C27_Original ==
    Installed
        => /\ ~job.threw
           /\ \A i \in 1..Len(STATIC_ASSETS) :
                (IsResponse(job.fetches[i]) /\ Ok(job.fetches[i]))
                    => IsResponse(Stored(AssetKey(i)))

----------------------------------------------------------------------------
(* The worker activating and then serving the page: the data type is at    *)
(* its limit, or one over it, when the worker activates; the playlist is   *)
(* not stored yet.  The page asks for the playlist, asks to preload a JSON *)
(* file, and the platform fires the playlist sync.                         *)

PathList == <<"/","d","a","t","a","/","l","i","s","t",".","j","s","o","n">>

\* ten data entries without the playlist, and one more
DataAtLimit ==
    (DataBase \ { Origin \o PathPlaylist }) \cup { DataExtras[1], DataExtras[2] }
DataOverLimit ==
    DataAtLimit \cup { File("d", <<"z","z">>, <<"j","s","o","n">>) }

InitCadence ==
    /\ caches \in { << OtherCaches[2],
                        [ name |-> CACHE_NAME, entries |-> StoreOf(keys \cup OtherKeys) ] >> :
                        keys \in { DataAtLimit, DataOverLimit } }
    /\ now = Days(0)
    /\ ticks = 0
    /\ events = 0
    /\ task = [ t \in TaskIds |-> IdleTask ]
    /\ job = IdleJob
    /\ port = <<>>

NextCadence ==
    \/ ActivateEvent
    \/ purgeKeys
    \/ purgeDelete(OtherCaches[2].name)
    \/ enforceOpen
    \/ enforceKeys
    \/ enforceDelete
    \/ \E t \in TaskIds : FetchEvent(t, GetRequest(Url(PathPlaylist, <<>>)))
    \/ \E t \in TaskIds : staleWhileRevalidateMatch(t)
    \/ \E t \in TaskIds, outcome \in NetOutcomes : staleWhileRevalidateFetch(t, outcome)
    \/ \E t \in TaskIds : cacheResponseOpen(t)
    \/ \E t \in TaskIds : cacheResponsePut(t)
    \/ MessageEvent("PRELOAD_AUDIO", Data(Undefined, Array(<<PathList>>)))
    \/ preloadAudioOpen
    \/ \E outcome \in NetOutcomes : preloadAudioFetch(1, outcome)
    \/ preloadAudioPut(1)
    \/ SyncEvent("background-playlist-update")
    \/ \E outcome \in NetOutcomes : updatePlaylistCacheFetch(outcome)
    \/ updatePlaylistCacheOpen
    \/ updatePlaylistCachePut

SpecCadence == InitCadence /\ [][NextCadence]_vars

\* enforceQuotaLimits is running
Enforcing == job.pc \in { "enforce.open", "enforce.keys", "enforce.delete" }

\* a capped type holds more entries than its ceiling
OverCeiling(cs, type) == Cardinality(Category(cs, type)) > CACHE_LIMITS[type]

----------------------------------------------------------------------------
(* C28 -- quota enforcement cadence: enforceQuotaLimits runs only as part  *)
(* of activation: it is started by the activate listener and by no         *)
(* strategy write, PRELOAD_AUDIO or sync; no other step removes an entry,  *)
(* so that a capped type brought over its ceiling after activation stays   *)
(* over it until the next activation.                                      *)

----------------------------------------------------------------------------
(* C29 -- background sync.                                                 *)

PlaylistKey == Origin \o PathPlaylist

\* the sync handler takes a step, its first one included
SyncSteps == job'.kind = "sync" /\ job' # job

\* C29: on tag background-playlist-update the worker fetches
\* /data/playlist.json and, when the response has a success status, puts it
\* under the playlist key in place of the entry stored there; when the fetch
\* rejects or the status is not a success the store is left as it was and no
\* error escapes; on tag background-analytics the store is left as it was.
C29_BackgroundSync ==
    /\ [](job.kind = "sync"
            => /\ ~job.threw
               /\ job.tag # "background-playlist-update" => job.pc = "done"
               /\ (job.tag = "background-playlist-update" /\ job.pc = "done")
                    => /\ job.response # Undefined
                       /\ (IsResponse(job.response) /\ Ok(job.response))
                            => Stored(PlaylistKey) = job.response)
    /\ [][ SyncSteps =>
             IF job.pc = "updatePlaylistCache.put"
             THEN /\ Stored(PlaylistKey)' = job.response
                  /\ DOMAIN Entries(caches') = DOMAIN Entries(caches) \cup {PlaylistKey}
                  /\ \A k \in DOMAIN Entries(caches) :
                        k # PlaylistKey => Entries(caches')[k] = Entries(caches)[k]
             ELSE /\ Entries(caches') = Entries(caches)
                  /\ job.pc = "updatePlaylistCache.fetch"
                        => job'.pc = IF IsResponse(job'.response) /\ Ok(job'.response)
                                     THEN "updatePlaylistCache.open" ELSE "done" ]_vars

\* the playlist entry a strategy had stored is replaced by the response of
\* the sync, the other entries are as they were
C29_Witness ==
    /\ job.kind = "sync"
    /\ job.tag = "background-playlist-update"
    /\ job.pc = "done"
    /\ IsResponse(job.response)
    /\ Stored(PlaylistKey) = job.response
    /\ Stored(PlaylistKey) # Warm[PlaylistKey]
    /\ Stored(Origin \o PathLogo) = Warm[Origin \o PathLogo]

----------------------------------------------------------------------------
(* The whole life of the entries: the worker activates, serves requests    *)
(* for a stored key while the clock moves on, and serves CLEAR_CACHE.      *)

PathOld == <<"/","d","/","0",".","j","s","o","n">>

NextLifecycle ==
    \/ ActivateEvent
    \/ purgeKeys
    \/ purgeDelete(OtherCaches[2].name)
    \/ enforceOpen
    \/ enforceKeys
    \/ enforceDelete
    \/ \E t \in TaskIds : FetchEvent(t, GetRequest(Url(PathOld, <<>>)))
    \/ \E t \in TaskIds : staleWhileRevalidateMatch(t)
    \/ \E t \in TaskIds, outcome \in NetOutcomes : staleWhileRevalidateFetch(t, outcome)
    \/ \E t \in TaskIds : cacheResponseOpen(t)
    \/ \E t \in TaskIds : cacheResponsePut(t)
    \/ Tick(Days(8))
    \/ \E cacheType \in { Str("all"), Str("data") } :
            MessageEvent("CLEAR_CACHE", Data(cacheType, Undefined))
    \/ clearCacheDelete
    \/ clearCacheOpen
    \/ clearCacheKeys
    \/ clearCacheDeleteAll

SpecLifecycle == InitCadence /\ [][NextLifecycle]_vars

\* the entries of the cache of a name, none when there is no such cache
EntriesOf(cs, name) ==
    IF HasCache(cs, name) THEN cs[CacheIndex(cs, name)].entries ELSE NoEntries

\* the handler that runs deletes from the cache of this name in this step:
\* the eviction of enforceQuotaLimits, clearCache, or the purge of activation
Deletes(name) ==
    \/ /\ name = CACHE_NAME
       /\ Activating
       /\ Evicts
    \/ /\ name = CACHE_NAME
       /\ job.kind = "message"
       /\ job.type = "CLEAR_CACHE"
       /\ job.pc \in { "clearCache.delete", "clearCache.deleteAll" }
       /\ job'.pc = "done"
    \/ /\ Activating
       /\ job.purge = "purge.delete"
       /\ name \in job.pending
       /\ name \notin job'.pending

\* the write of a strategy to key k of the current generation completes in
\* this step
Puts(k) ==
    \E t \in TaskIds : Steps(t, "cacheResponse.put") /\ Key(task[t]) = k

----------------------------------------------------------------------------
(* C30 -- entry lifecycle: no step of a strategy removes a stored entry;   *)
(* an entry, expired or not, stays in its cache as it is until a write to  *)
(* the same key replaces it or it is deleted by the quota eviction, by     *)
(* CLEAR_CACHE or by the purge of activation.                              *)

C30_EntryLifecycle ==
    [][ \A i \in 1..Len(caches) :
          LET name   == caches[i].name
              before == caches[i].entries
              after  == EntriesOf(caches', name)
          IN  \A k \in DOMAIN before :
                /\ k \notin DOMAIN after
                     => Deletes(name) /\ task' = task
                /\ (k \in DOMAIN after /\ after[k] # before[k])
                     => name = CACHE_NAME /\ Puts(k)
                /\ task' # task
                     => k \in DOMAIN after ]_vars

\* a request found the entry expired and its fetch failed: the page got the
\* expired entry and the entry is still stored
C30_Witness ==
    \E t \in TaskIds :
        /\ Strategy(t) = SWR
        /\ task[t].pc = "done"
        /\ IsResponse(task[t].cachedResponse)
        /\ isExpired(task[t].cachedResponse, Key(task[t]))
        /\ task[t].networkResponse = Rejected
        /\ task[t].result = task[t].cachedResponse
        /\ Stored(Key(task[t])) = task[t].cachedResponse

----------------------------------------------------------------------------
(* C31 -- control-protocol liveness, as stated: every CLEAR_CACHE and      *)
(* every PRELOAD_AUDIO message gets its reply, also when it carries no     *)
(* data field or an unexpected cacheType or urls: once its handler is      *)
(* through, the reply is on the port.                                      *)

C31_Original ==
    (/\ job.kind = "message"
     /\ job.type \in { "CLEAR_CACHE", "PRELOAD_AUDIO" }
     /\ job.pc = "done")
        => /\ port # <<>>
           /\ port[Len(port)] = [ success |-> TRUE ]

----------------------------------------------------------------------------
(* C32 -- store-before-return on the network path.                         *)

\* slot t has returned a network response that passes shouldCache
ReturnedCacheable(t) ==
    /\ task[t].handled # Undefined
    /\ IsResponse(task[t].networkResponse)
    /\ task[t].handled = task[t].networkResponse
    /\ shouldCache(task[t].networkResponse)

\* C32 as stated: in network-first and in stale-while-revalidate alike, when
\* the strategy has returned a cacheable network response, the write of that
\* response to the store has completed.
C32_Original ==
    \A t \in TaskIds :
        (Strategy(t) \in { CACHE_STRATEGIES.NETWORK_FIRST, SWR } /\ ReturnedCacheable(t))
            => Wrote(t)

\* C32 amended: in network-first, whenever the strategy returns a cacheable
\* network response to the caller, the write of that response to the store
\* has already completed, so a cache read issued right after the return finds
\* it; in stale-while-revalidate the response is returned as soon as the
\* fetch resolves, when the write has been started and not completed, so a
\* cache read issued right after the return may not find it.
C32_StoreBeforeReturn ==
    /\ [][ \A t \in TaskIds :
             (Returns(t) /\ ReturnedCacheable(t)')
                 => /\ Strategy(t) = CACHE_STRATEGIES.NETWORK_FIRST
                         => /\ Steps(t, "cacheResponse.put")
                            /\ Stored(Key(task[t]))' = Written(t)
                            /\ CachesMatch(caches', Key(task[t])) # Undefined
                    /\ Strategy(t) = SWR
                         => /\ Steps(t, "staleWhileRevalidate.fetch")
                            /\ task'[t].pc = "cacheResponse.open"
                            /\ task'[t].stamp = Undefined
                            /\ caches' = caches ]_vars
    /\ [](\A t \in TaskIds :
            (Strategy(t) = CACHE_STRATEGIES.NETWORK_FIRST /\ ReturnedCacheable(t))
                => Wrote(t))

\* stale-while-revalidate has returned the network response and the store
\* has no entry for the key yet
C32_Witness ==
    \E t \in TaskIds :
        /\ Strategy(t) = SWR
        /\ ReturnedCacheable(t)
        /\ task[t].pc = "cacheResponse.put"
        /\ CachesMatch(caches, Key(task[t])) = Undefined

----------------------------------------------------------------------------
(* The worker serving requests before it has stored anything, while the    *)
(* CacheStorage of the origin holds a superseded generation and a cache of *)
(* another application.                                                    *)

\* an image the other application has cached, and one nobody has
PathImage == <<"/","i","/","0",".","p","n","g">>
PathPhoto == <<"/","i","/","1",".","p","n","g">>

InitGenerations ==
    /\ caches \in { << OtherCaches[1], OtherCaches[4] >> \o current :
                        current \in { <<>>, << [ name |-> CACHE_NAME,
                                                 entries |-> NoEntries ] >> } }
    /\ now = Days(0)
    /\ ticks = 0
    /\ events = 0
    /\ task = [ t \in TaskIds |-> IdleTask ]
    /\ job = IdleJob
    /\ port = <<>>

NextGenerations ==
    \/ \E t \in TaskIds, pathname \in { PathRoot, PathImage, PathPhoto } :
            FetchEvent(t, GetRequest(Url(pathname, <<>>)))
    \/ \E t \in TaskIds : cacheFirstMatch(t)
    \/ \E t \in TaskIds, outcome \in NetOutcomes : cacheFirstFetch(t, outcome)
    \/ \E t \in TaskIds, outcome \in NetOutcomes : networkFirstFetch(t, outcome)
    \/ \E t \in TaskIds : networkFirstMatch(t)
    \/ \E t \in TaskIds : cacheResponseOpen(t)
    \/ \E t \in TaskIds : cacheResponsePut(t)

SpecGenerations == InitGenerations /\ [][NextGenerations]_vars

----------------------------------------------------------------------------
(* C33 -- as stated: every cached response that a strategy reads and       *)
(* returns is the entry of the current generation, the cache the strategy  *)
(* writes go to; an entry that exists only in another cache is never       *)
(* served.                                                                 *)

C33_Original ==
    [][ \A t \in TaskIds :
          (task[t].cachedResponse = Undefined /\ task'[t].cachedResponse # Undefined)
              => /\ task'[t].cachedResponse = Stored(Key(task[t]))
                 /\ task'[t].handled = task'[t].cachedResponse
                      => IsResponse(Stored(Key(task[t]))) ]_vars

----------------------------------------------------------------------------
(* C34 -- as stated: the category by which an entry is judged for          *)
(* expiration, counted for its quota and selected by CLEAR_CACHE is the    *)
(* category by which the path of its request was routed; a request whose   *)
(* path ends in .json is judged with the 1-day max-age and counted and     *)
(* cleared as data, with or without a query string.                        *)

\* the max-age of a category
DurationOf(category) ==
    IF category = "other" THEN CACHE_DURATION.static ELSE CACHE_DURATION[category]

C34_Original ==
    [][ \A t \in TaskIds :
          (Matches(t) /\ Stamped(Found(t)))
              => LET key == Key(task[t])
                     category == GroupOf(task[t].request.url.pathname)
                     T == Found(t).headers["sw-cached-at"]
                     stale == Later(now, TimeAdd(T, DurationOf(category)))
                 IN  /\ stale <=> task'[t].handled = Undefined
                     /\ GroupOf(key) = category
                     /\ category # "other"
                          => toDelete({ key }, Str(category)) = { key } ]_vars

----------------------------------------------------------------------------
(* Activation over a store that holds any number of scripts, from none to  *)
(* more than the largest ceiling, besides images around their ceiling.     *)

StaticKeys(n) == { File("s", TwoDigits(i), <<"j","s">>) : i \in 0..(n - 1) }

InitStatic ==
    /\ \E n \in 0..(CACHE_LIMITS.images + 1), images \in SUBSET ImageExtras :
          caches = << OtherCaches[1],
                      [ name |-> CACHE_NAME,
                        entries |-> StoreOf(ImageBase \cup images
                                        \cup StaticKeys(n) \cup OtherKeys) ] >>
    /\ now = Days(0)
    /\ ticks = 0
    /\ events = 0
    /\ task = [ t \in TaskIds |-> IdleTask ]
    /\ job = IdleJob
    /\ port = <<>>

SpecStatic == InitStatic /\ [][NextActivate]_vars

----------------------------------------------------------------------------
(* C35 -- quota enforcement never deletes an entry whose URL has no image, *)
(* audio or .json extension, however many of them are stored: only images, *)
(* audio and data have a ceiling, and only their entries are removed.      *)

C35_StaticNeverEvicted ==
    /\ [](job.pc = "enforce.delete" => job.group \in { "images", "audio", "data" })
    /\ [][ Activating =>
             /\ \A k \in Category(caches, "other") :
                    /\ k \in Category(caches', "other")
                    /\ Entries(caches')[k] = Entries(caches)[k]
             /\ \A k \in DOMAIN Entries(caches) \ DOMAIN Entries(caches') :
                    GroupOf(k) \in { "images", "audio", "data" } ]_vars

\* 56 entries of no capped type went through an enforcement that removed images
C35_Witness ==
    /\ Activated
    /\ Cardinality(Category(caches, "other")) > CACHE_LIMITS.images
    /\ Category(caches, "other") = Grouped(job.requests, "other")
    /\ Cardinality(Grouped(job.requests, "images")) > CACHE_LIMITS.images
    /\ Cardinality(Category(caches, "images")) = CACHE_LIMITS.images

----------------------------------------------------------------------------
(* C36 -- as stated: the entry cacheResponse writes for a cacheable        *)
(* network response carries the body, the status and every header of that  *)
(* response, and the sw-cached-at capture timestamp besides; the write     *)
(* drops no original header.                                               *)

C36_Original ==
    [][ \A t \in TaskIds :
          Steps(t, "cacheResponse.put")
              => LET given == task[t].networkResponse
                     entry == Stored(Key(task[t]))'
                 IN  /\ IsResponse(entry)
                     /\ entry.body = given.body
                     /\ entry.status = given.status
                     /\ HasHeader(entry.headers, "sw-cached-at")
                     /\ \A name \in DOMAIN given.headers :
                            /\ HasHeader(entry.headers, name)
                            /\ entry.headers[name] = given.headers[name] ]_vars

====
